---- MODULE Spec2Model ----
(***************************************************************************)
(* Model of the wdmview temporal state reconstructor                       *)
(* (src/src/scene/defrag_event.rs) and of the wavelength lane layout pass  *)
(* (src/src/app_state.rs, State::generate_all_lines_for_current_time).     *)
(*                                                                         *)
(* Times (f32 in the source) are modelled by integers: the code only       *)
(* compares them, and the event log is deserialised from JSON, which has   *)
(* no NaN.                                                                 *)
(***************************************************************************)
EXTENDS Integers, Sequences, FiniteSets, TLC

VARIABLES
    all_events,                 \* State::all_events: Vec<AnyEvent>
    all_connections,            \* State::all_connections: Vec<ConnectionData>
    node_id_to_idx,             \* State::node_id_to_idx: HashMap<String, usize>
    circle_instances,           \* State::circle_instances: Vec<CircleInstance>
    current_time_selection,     \* State::current_time_selection: f32
    highlight_service_id_list,  \* State::highlight_service_id_list: Option<Vec<i32>>
    line_vertices,              \* State::line_vertices, one entry per vertex pair
    highlight_line_vertices,    \* State::highlight_line_vertices, one entry per quad
    world_text_labels,          \* State::world_text_labels: Vec<TextLabel>
    topology_needs_update,      \* State::topology_needs_update
    camera_needs_update,        \* State::camera_needs_update
    panicked,                   \* the layout pass hit a Rust panic
    last_pass,                  \* what the last layout pass was run on
    first_snapshot,             \* per query time, the first map a layout pass got
    rc_call,                    \* the last direct call of reconstruct_state_at_time
    rs_call,                    \* the last selection of a service: what resolve gave
    reload,                     \* whether the inputs were reloaded without unknown ids
    lane_in,                    \* the wavelength indices of two services
    lane_out,                   \* the lane (spread factor, angle) computed for each
    update_call,                \* the State::update call that has just been made
    camera,                     \* State::camera: Camera
    app                         \* App: the State slot, the event loop's user events

topologyVars == <<all_connections, node_id_to_idx>>
queryVars == <<current_time_selection, highlight_service_id_list>>
outputVars == <<circle_instances, line_vertices, highlight_line_vertices,
                world_text_labels>>
flagVars == <<topology_needs_update, camera_needs_update>>
passVars == <<panicked, last_pass, first_snapshot>>
laneVars == <<lane_in, lane_out>>
stateVars == <<topologyVars, queryVars, outputVars, flagVars, passVars>>
callVars == <<rc_call, rs_call, reload>>
shellVars == <<camera, app>>
vars == <<all_events, stateVars, callVars, laneVars, update_call, shellVars>>

(***************************************************************************)
(* Bounds of the model.                                                    *)
(***************************************************************************)
MaxTime == 1
MaxLogLen == 3
MaxWavelength == 81
MaxLabels == 6

Times == 0..MaxTime

\* the epsilon the resolver adds to the captured arrival time, one time unit:
\* a query at a + Epsilon compares with every integer time as a query at any
\* point of (a, a + 1] does
Epsilon == 1

\* the query times: those the caller selects and those the resolver returns
QueryTimes == 0..(MaxTime + Epsilon)
ServiceIds == {1, 2}

(***************************************************************************)
(* ServiceData (the fields the core reads).                                *)
(***************************************************************************)
ServiceData(arrival, departure, path, wavelength) ==
    [arrival_time |-> arrival, departure_time |-> departure,
     path |-> path, wavelength |-> wavelength]

(***************************************************************************)
(* AnyEvent: the three variants of the tagged union.                       *)
(***************************************************************************)
Allocation(ts, id, service) ==
    [type |-> "Allocation", timestamp |-> ts, service_id |-> id,
     details |-> service]

ReleaseExpired(ts, id) ==
    [type |-> "ReleaseExpired", timestamp |-> ts, service_id |-> id,
     details |-> [departure_time |-> ts]]

Reallocation(ts, id, from, service) ==
    [type |-> "Reallocation", timestamp |-> ts, service_id |-> id,
     details |-> [defrag_service_id |-> from, service |-> service]]

timestamp(event) == event.timestamp

\* impl From<ReallocationDetails> for ServiceData
ServiceFromDetails(details) == details.service

(***************************************************************************)
(* HashMap<i32, ServiceData> as a function on a finite set of ids.         *)
(***************************************************************************)
\* a map that outlives the call instead of `HashMap::new()`
NewServiceDict_stale == last_pass.snapshot

NewServiceDict == [k \in {} |-> 0]

MapInsert(dict, id, service) ==
    [k \in (DOMAIN dict) \cup {id} |-> IF k = id THEN service ELSE dict[k]]

\* `.remove(id)` that gives the replay up on an absent id
MapRemove_must_exist(dict, id) ==
    IF id \in DOMAIN dict THEN [k \in (DOMAIN dict) \ {id} |-> dict[k]]
    ELSE [k \in {} |-> 0]

MapRemove(dict, id) ==
    [k \in (DOMAIN dict) \ {id} |-> dict[k]]

\* the key under which a Reallocation stores its service
ReallocationKey_origin(event) == event.details.defrag_service_id

ReallocationKey(event) == event.service_id

\* the body of the `match event` of reconstruct_state_at_time
ApplyEvent_moves_origin(dict, event) ==
    CASE event.type = "Allocation" ->
            MapInsert(dict, event.service_id, event.details)
      [] event.type = "ReleaseExpired" ->
            MapRemove(dict, event.service_id)
      [] event.type = "Reallocation" ->
            MapInsert(MapRemove(dict, event.details.defrag_service_id),
                      event.service_id, ServiceFromDetails(event.details))

ApplyEvent(dict, event) ==
    CASE event.type = "Allocation" ->
            MapInsert(dict, event.service_id, event.details)
      [] event.type = "ReleaseExpired" ->
            MapRemove(dict, event.service_id)
      [] event.type = "Reallocation" ->
            MapInsert(dict, ReallocationKey(event), ServiceFromDetails(event.details))

\* the guard of the loop: `if event.timestamp() > target_time { break; }`
StopsAt_inclusive(event, target_time) == timestamp(event) >= target_time

StopsAt(event, target_time) == timestamp(event) > target_time

\* the indices of the events the loop reaches and applies, in order: the loop
\* leaves at the first event that StopsAt
RECURSIVE AppliedFrom_skipping(_, _, _)
AppliedFrom_skipping(timeline_events, target_time, i) ==
    IF i > Len(timeline_events) THEN <<>>
    ELSE IF StopsAt(timeline_events[i], target_time)
         THEN AppliedFrom_skipping(timeline_events, target_time, i + 1)
    ELSE <<i>> \o AppliedFrom_skipping(timeline_events, target_time, i + 1)

RECURSIVE AppliedFrom(_, _, _)
AppliedFrom(timeline_events, target_time, i) ==
    IF i > Len(timeline_events) THEN <<>>
    ELSE IF StopsAt(timeline_events[i], target_time) THEN <<>>
    ELSE <<i>> \o AppliedFrom(timeline_events, target_time, i + 1)

AppliedEvents(timeline_events, target_time) ==
    AppliedFrom(timeline_events, target_time, 1)

\* the map after the events at the first n of the indices are applied in order
RECURSIVE Replay(_, _, _, _)
Replay(dict, events, indices, n) ==
    IF n = 0 THEN dict
    ELSE ApplyEvent(Replay(dict, events, indices, n - 1), events[indices[n]])

reconstruct_state_at_time(timeline_events, target_time) ==
    LET applied == AppliedEvents(timeline_events, target_time)
    IN Replay(NewServiceDict, timeline_events, applied, Len(applied))

(***************************************************************************)
(* Wavelength lane of a service (Step 4 of the layout pass).               *)
(*                                                                         *)
(* The spread factor (eff - (W-1)/2) / ((W-1)/2) is kept as the exact      *)
(* fraction (2*eff - (W-1)) / (W-1).  In f32 the numerator eff - 39.5 is   *)
(* computed exactly and the division is correctly rounded, which is odd    *)
(* and monotone, so sign, zero, equality of negatives and comparison with  *)
(* 1 are those of the fraction.  Angles are fractions of                   *)
(* LINK_BOUNDARY_ROTATE_ANGLE (pi/16).                                     *)
(***************************************************************************)
MAX_WAVELENGTHS == 80
SpreadPercent == 95

Abs(x) == IF x < 0 THEN -x ELSE x

\* (wavelength as f32).min((MAX_WAVELENGTHS - 1) as f32)
effective_wavelength_unclamped(wavelength, capacity) == wavelength

effective_wavelength(wavelength, capacity) ==
    IF wavelength < capacity - 1 THEN wavelength ELSE capacity - 1

\* (eff - ((W as f32 - 1.0) / 2.0)) / ((W as f32 - 1.0) / 2.0)
normalized_wavelength_factor_offcentre(effective, capacity) ==
    [num |-> 2 * effective - capacity, den |-> capacity - 1]

normalized_wavelength_factor(effective, capacity) ==
    [num |-> 2 * effective - (capacity - 1), den |-> capacity - 1]

\* normalized_wavelength_factor * SERVICE_MAX_SPREAD_ANGLE, where
\* SERVICE_MAX_SPREAD_ANGLE = LINK_BOUNDARY_ROTATE_ANGLE * 0.95
wavelength_rotate_angle(factor) ==
    [num |-> factor.num * SpreadPercent, den |-> factor.den * 100]

\* what the service loop derives from service.wavelength before the hops
LaneOf(wavelength) ==
    LET effective == effective_wavelength(wavelength, MAX_WAVELENGTHS)
        factor == normalized_wavelength_factor(effective, MAX_WAVELENGTHS)
    IN [effective |-> effective, factor |-> factor,
        angle |-> wavelength_rotate_angle(factor)]

(***************************************************************************)
(* Geometry of the layout pass.                                            *)
(*                                                                         *)
(* Node centres lie on an integer grid.  A unit vector is kept as the      *)
(* primitive integer vector of its direction; the zero vector has no       *)
(* direction: Vec2::normalize turns it into NaN, kept as <<0, 0>>.  A      *)
(* vertex `centre + (unit * radius).rotate(from_angle(a))` is kept as the  *)
(* record of centre, unit and a; two such records with finite directions   *)
(* denote the same position exactly when they are equal (all angles are    *)
(* below pi/16 in magnitude).                                              *)
(***************************************************************************)
Sub(p, q) == <<p[1] - q[1], p[2] - q[2]>>

Neg(v) == <<-v[1], -v[2]>>

RECURSIVE Gcd(_, _)
Gcd(a, b) == IF b = 0 THEN a ELSE Gcd(b, a % b)

normalize(v) ==
    IF v = <<0, 0>> THEN <<0, 0>>
    ELSE LET g == Gcd(Abs(v[1]), Abs(v[2])) IN <<v[1] \div g, v[2] \div g>>

\* `length < f32::EPSILON` on grid coordinates
ZeroLength_never(dir_vec) == FALSE

ZeroLength(dir_vec) == dir_vec = <<0, 0>>

\* `if normalized_dir.y >= 0.0 { 1.0 } else { -1.0 }` (NaN >= 0.0 is false)
upward_sacle(normalized_dir) ==
    IF normalized_dir # <<0, 0>> /\ normalized_dir[2] >= 0 THEN 1 ELSE -1

ScaleAngle(angle, scale) == [num |-> angle.num * scale, den |-> angle.den]

\* LINK_BOUNDARY_ROTATE_ANGLE, in units of itself
BoundaryAngle == [num |-> 1, den |-> 1]

\* centre + radius_vec.rotate(Vec2::from_angle(angle))
RimPlus(centre, unit, angle) == [centre |-> centre, dir |-> unit, angle |-> angle]

\* centre - radius_vec.rotate(Vec2::from_angle(angle))
RimMinus(centre, unit, angle) == [centre |-> centre, dir |-> Neg(unit), angle |-> angle]

IsNaN(point) == point.dir = <<0, 0>>

(***************************************************************************)
(* Colours.                                                                *)
(***************************************************************************)
\* Srgba::rgb_u8(r, g, b)
Srgba(r, g, b) == [r |-> r, g |-> g, b |-> b]

NodeDefaultColor == Srgba(0, 93, 93)

highlight_node_color == Srgba(210, 161, 6)

link_boundary_color == Srgba(180, 180, 180)

\* (effective_wavelength + 0.5) / 80 * 180 + 30, in eighths of a degree
hue_color(effective) == (2 * effective + 1) * 9 + 240

\* Oklcha::lch(lightness, chroma, hue), lightness and chroma in hundredths
Oklcha(lightness, chroma, hue) ==
    [lightness |-> lightness, chroma |-> chroma, hue |-> hue]

(***************************************************************************)
(* The highlight selection: None, or Some(list of service ids).            *)
(***************************************************************************)
None == [is_some |-> FALSE, ids |-> <<>>]
Some(ids) == [is_some |-> TRUE, ids |-> ids]

Range(q) == {q[i] : i \in DOMAIN q}

(***************************************************************************)
(* State::generate_all_lines_for_current_time.                             *)
(***************************************************************************)
Known(node_id) == node_id \in DOMAIN node_id_to_idx

Centre(node_id) == circle_instances[node_id_to_idx[node_id]].position

\* the nodes on the paths of the highlighted services of the snapshot
nodes_in_highlighted_services ==
    IF highlight_service_id_list.is_some
    THEN LET reconstructed_service_dict ==
                 reconstruct_state_at_time(all_events, current_time_selection)
         IN UNION {Range(reconstructed_service_dict[id].path) :
                      id \in Range(highlight_service_id_list.ids)
                             \cap DOMAIN reconstructed_service_dict}
    ELSE {}

\* the recolouring without the reset to the default colour
RecolouredInstances_no_reset ==
    [i \in DOMAIN circle_instances |->
        [circle_instances[i] EXCEPT !.color =
            IF \E node_id \in DOMAIN node_id_to_idx :
                   /\ node_id_to_idx[node_id] = i
                   /\ node_id \in nodes_in_highlighted_services
            THEN highlight_node_color
            ELSE circle_instances[i].color]]

\* Step 1: every node back to the default colour, then the highlighted ones
RecolouredInstances ==
    [i \in DOMAIN circle_instances |->
        [circle_instances[i] EXCEPT !.color =
            IF \E node_id \in DOMAIN node_id_to_idx :
                   /\ node_id_to_idx[node_id] = i
                   /\ node_id \in nodes_in_highlighted_services
            THEN highlight_node_color
            ELSE NodeDefaultColor]]

\* Step 2: the two boundary lines of link k
LinkBoundary(k) ==
    LET link == all_connections[k]
    IN IF Known(link.from_node) /\ Known(link.to_node)
       THEN LET source_position_center == Centre(link.from_node)
                destination_position_center == Centre(link.to_node)
                dir_vec == Sub(destination_position_center, source_position_center)
                normalized_dir == normalize(dir_vec)
                of == [kind |-> "boundary", owner |-> k, index |-> 0]
            IN IF ZeroLength(dir_vec) THEN <<>>
               ELSE <<[start |-> RimPlus(source_position_center, normalized_dir,
                                         BoundaryAngle),
                       end |-> RimMinus(destination_position_center, normalized_dir,
                                        ScaleAngle(BoundaryAngle, -1)),
                       color |-> link_boundary_color, of |-> of],
                      [start |-> RimPlus(source_position_center, normalized_dir,
                                         ScaleAngle(BoundaryAngle, -1)),
                       end |-> RimMinus(destination_position_center, normalized_dir,
                                        BoundaryAngle),
                       color |-> link_boundary_color, of |-> of]>>
       ELSE <<>>

RECURSIVE LinkBoundaries(_)
LinkBoundaries(k) ==
    IF k > Len(all_connections) THEN <<>>
    ELSE LinkBoundary(k) \o LinkBoundaries(k + 1)

\* Step 3: `current_time_selection >= arrival_time && current_time_selection < departure_time`
IsActive_until_departure(service) ==
    /\ current_time_selection >= service.arrival_time
    /\ current_time_selection <= service.departure_time

IsActive(service) ==
    /\ current_time_selection >= service.arrival_time
    /\ current_time_selection < service.departure_time

\* every service counts as highlighted once a highlight is selected
is_highlighted_any(service_id) == highlight_service_id_list.is_some

is_highlighted(service_id) ==
    /\ highlight_service_id_list.is_some
    /\ service_id \in Range(highlight_service_id_list.ids)

\* `self.highlight_service_id_list.iter().len() == 0`: the Option holds nothing
service_color(service_id, effective) ==
    IF is_highlighted(service_id)
    THEN Oklcha(75, 20, hue_color(effective))
    ELSE IF ~highlight_service_id_list.is_some
         THEN Oklcha(60, 11, hue_color(effective))
         ELSE Oklcha(40, 11, hue_color(effective))

\* what one step of the pass pushes
Pushed(lines, quads, labels) ==
    [lines |-> lines, quads |-> quads, labels |-> labels, panicked |-> FALSE]

Nothing == Pushed(<<>>, <<>>, <<>>)

Panic == [lines |-> <<>>, quads |-> <<>>, labels |-> <<>>, panicked |-> TRUE]

Join(a, b) ==
    [lines |-> a.lines \o b.lines, quads |-> a.quads \o b.quads,
     labels |-> a.labels \o b.labels, panicked |-> a.panicked \/ b.panicked]

\* State::add_thick_line_segment: nothing for a segment shorter than f32::EPSILON
add_thick_line_segment(start_pos, end_pos, color, of) ==
    IF ~IsNaN(start_pos) /\ ~IsNaN(end_pos) /\ start_pos = end_pos
    THEN <<>>
    ELSE <<[start |-> start_pos, end |-> end_pos, color |-> color, of |-> of]>>

TextLabel(content, position) == [content |-> content, position |-> position]

\* Step 5: the hop from path[i] to path[i + 1], i counted from 0
Hop(service_id, service, i, angle, color) ==
    LET source_node_id == service.path[i + 1]
        target_node_id == service.path[i + 2]
    IN IF Known(source_node_id) /\ Known(target_node_id)
       THEN LET source_pos_center == Centre(source_node_id)
                target_pos_center == Centre(target_node_id)
                dir_vec == Sub(target_pos_center, source_pos_center)
                normalized_dir == normalize(dir_vec)
                up == upward_sacle(normalized_dir)
                service_start_pos ==
                    RimPlus(source_pos_center, normalized_dir, ScaleAngle(angle, up))
                service_end_pos ==
                    RimMinus(target_pos_center, normalized_dir, ScaleAngle(angle, -up))
                of == [kind |-> "hop", owner |-> service_id, index |-> i]
            IN IF ZeroLength(dir_vec) THEN Nothing
               ELSE IF is_highlighted(service_id)
               THEN Pushed(<<>>,
                           add_thick_line_segment(service_start_pos, service_end_pos,
                                                  color, of),
                           <<TextLabel(i, source_pos_center)>>
                           \o (IF i = Len(service.path) - 2
                               THEN <<TextLabel(i + 1, target_pos_center)>>
                               ELSE <<>>))
               ELSE Pushed(<<[start |-> service_start_pos, end |-> service_end_pos,
                              color |-> color, of |-> of]>>, <<>>, <<>>)
       ELSE Nothing

\* the elbow without the direction-sign rule of the hops
Elbow_unsigned(service_id, service, i, angle, color) ==
    LET source_node_id == service.path[i + 1]
        middle_node_id == service.path[i + 2]
        target_node_id == service.path[i + 3]
    IN IF Known(source_node_id) /\ Known(middle_node_id) /\ Known(target_node_id)
       THEN LET source_pos_center == Centre(source_node_id)
                middle_pos_center == Centre(middle_node_id)
                target_pos_center == Centre(target_node_id)
                middle_start_pos ==
                    RimPlus(middle_pos_center,
                            normalize(Sub(target_pos_center, middle_pos_center)), angle)
                middle_end_pos ==
                    RimMinus(middle_pos_center,
                             normalize(Sub(middle_pos_center, source_pos_center)),
                             ScaleAngle(angle, -1))
                of == [kind |-> "elbow", owner |-> service_id, index |-> i]
            IN IF is_highlighted(service_id)
               THEN Pushed(<<>>,
                           add_thick_line_segment(middle_start_pos, middle_end_pos,
                                                  color, of),
                           <<>>)
               ELSE Pushed(<<[start |-> middle_start_pos, end |-> middle_end_pos,
                              color |-> color, of |-> of]>>, <<>>, <<>>)
       ELSE Nothing

\* Step 6: the segment inside the node path[i + 1], between the hop that
\* arrives from path[i] and the hop that leaves to path[i + 2]
Elbow(service_id, service, i, angle, color) ==
    LET source_node_id == service.path[i + 1]
        middle_node_id == service.path[i + 2]
        target_node_id == service.path[i + 3]
    IN IF Known(source_node_id) /\ Known(middle_node_id) /\ Known(target_node_id)
       THEN LET source_pos_center == Centre(source_node_id)
                middle_pos_center == Centre(middle_node_id)
                target_pos_center == Centre(target_node_id)
                source_middle_dir_vec == Sub(target_pos_center, middle_pos_center)
                middle_target_dir_vec == Sub(middle_pos_center, source_pos_center)
                normalized_source_middle_dir == normalize(source_middle_dir_vec)
                normalized_middle_target_dir == normalize(middle_target_dir_vec)
                middle_start_pos ==
                    RimPlus(middle_pos_center, normalized_source_middle_dir,
                            ScaleAngle(angle, upward_sacle(normalized_source_middle_dir)))
                middle_end_pos ==
                    RimMinus(middle_pos_center, normalized_middle_target_dir,
                             ScaleAngle(angle, -upward_sacle(normalized_middle_target_dir)))
                of == [kind |-> "elbow", owner |-> service_id, index |-> i]
            IN IF is_highlighted(service_id)
               THEN Pushed(<<>>,
                           add_thick_line_segment(middle_start_pos, middle_end_pos,
                                                  color, of),
                           <<>>)
               ELSE Pushed(<<[start |-> middle_start_pos, end |-> middle_end_pos,
                              color |-> color, of |-> of]>>, <<>>, <<>>)
       ELSE Nothing

\* the loop over the hops left at the first hop that names an unknown node
RECURSIVE Hops_leaving_on_unknown(_, _, _, _, _)
Hops_leaving_on_unknown(service_id, service, i, angle, color) ==
    IF i >= Len(service.path) - 1 THEN Nothing
    ELSE IF ~(Known(service.path[i + 1]) /\ Known(service.path[i + 2])) THEN Nothing
    ELSE Join(Hop(service_id, service, i, angle, color),
              Hops_leaving_on_unknown(service_id, service, i + 1, angle, color))

\* `for i in 0..(service.path.len() - 1)`, from i on
RECURSIVE Hops(_, _, _, _, _)
Hops(service_id, service, i, angle, color) ==
    IF i >= Len(service.path) - 1 THEN Nothing
    ELSE Join(Hop(service_id, service, i, angle, color),
              Hops(service_id, service, i + 1, angle, color))

\* `for i in 0..(service.path.len() - 2)`, from i on
RECURSIVE Elbows(_, _, _, _, _)
Elbows(service_id, service, i, angle, color) ==
    IF i >= Len(service.path) - 2 THEN Nothing
    ELSE Join(Elbow(service_id, service, i, angle, color),
              Elbows(service_id, service, i + 1, angle, color))

\* the body of the loop over the snapshot, for one service.  path.len() is a
\* usize: with fewer than 2 nodes `len - 1` or `len - 2` underflows, which
\* panics (or wraps, and then the path index is out of range, which panics)
ServiceGeometry(service_id, service) ==
    IF ~IsActive(service) THEN Nothing
    ELSE IF Len(service.path) < 2 THEN Panic
    ELSE LET lane == LaneOf(service.wavelength)
             color == service_color(service_id, lane.effective)
         IN Join(Hops(service_id, service, 0, lane.angle, color),
                 Elbows(service_id, service, 0, lane.angle, color))

\* the loop over the snapshot, in the order the HashMap iterates (order is a
\* sequence of the ids of the map), from position n on; a panic ends the pass
RECURSIVE ServicesGeometry(_, _, _)
ServicesGeometry(reconstructed_service_dict, order, n) ==
    IF n > Len(order) THEN Nothing
    ELSE LET one == ServiceGeometry(order[n], reconstructed_service_dict[order[n]])
         IN IF one.panicked THEN one
            ELSE Join(one, ServicesGeometry(reconstructed_service_dict, order, n + 1))

IterationOrders(dict) ==
    {order \in [1..Cardinality(DOMAIN dict) -> DOMAIN dict] :
        \A i, j \in DOMAIN order : order[i] = order[j] => i = j}

EmptyDict == [k \in {} |-> 0]

NoPass == [done |-> FALSE, time |-> 0, highlight |-> None, snapshot |-> EmptyDict]

NotSeen == [seen |-> FALSE, dict |-> EmptyDict]

generate_all_lines_for_current_time ==
    LET reconstructed_service_dict ==
            reconstruct_state_at_time(all_events, current_time_selection)
    IN \E order \in IterationOrders(reconstructed_service_dict) :
          LET services == ServicesGeometry(reconstructed_service_dict, order, 1)
          IN /\ Len(world_text_labels) + Len(services.labels) <= MaxLabels
             /\ circle_instances' = RecolouredInstances
             /\ line_vertices' = LinkBoundaries(1) \o services.lines
             /\ highlight_line_vertices' = services.quads
             /\ world_text_labels' = world_text_labels \o services.labels
             /\ panicked' = services.panicked
             /\ last_pass' = [done |-> TRUE, time |-> current_time_selection,
                              highlight |-> highlight_service_id_list,
                              snapshot |-> reconstructed_service_dict]
             /\ first_snapshot' =
                    IF first_snapshot[current_time_selection].seen
                    THEN first_snapshot
                    ELSE [first_snapshot EXCEPT ![current_time_selection] =
                             [seen |-> TRUE, dict |-> reconstructed_service_dict]]

\* no State::update call has been made since the last other operation
NoUpdate == [made |-> FALSE]

(***************************************************************************)
(* Camera::new: position at the origin, zoom 1.0.  The zoom (f32 in the    *)
(* source) is a fixed-point number with six decimals; the position is kept *)
(* only as what set it last.                                               *)
(***************************************************************************)
ZoomUnit == 1000000

InitialViewport == <<800, 600>>

NewCamera ==
    [position |-> "origin", zoom |-> ZoomUnit, viewport_size |-> InitialViewport,
     is_panning |-> FALSE]

(***************************************************************************)
(* App once State::new has completed and the State is stored in it, with   *)
(* no user event in flight.                                                *)
(***************************************************************************)
RunningApp ==
    [task |-> "done", state |-> TRUE, events |-> <<>>, ready |-> FALSE,
     next_command |-> 1, handled |-> {}]

(***************************************************************************)
(* State::update: the camera uniform and the line geometry are refreshed   *)
(* when their dirty flag is set.                                           *)
(***************************************************************************)
\* State::update regenerating the geometry on every call
Update_every_frame ==
    /\ ~panicked
    /\ camera_needs_update' = FALSE
    /\ generate_all_lines_for_current_time
    /\ topology_needs_update' = panicked'
    /\ update_call' =
           [made |-> TRUE,
            camera_on_entry |-> camera_needs_update,
            topology_on_entry |-> topology_needs_update,
            outputs_on_entry |-> outputVars,
            returned |-> ~panicked',
            needs_redraw |-> camera_needs_update \/ topology_needs_update]
    /\ UNCHANGED <<all_events, topologyVars, queryVars, callVars, laneVars, shellVars>>

Update ==
    /\ ~panicked
    /\ camera_needs_update' = FALSE
    /\ IF topology_needs_update
       THEN /\ generate_all_lines_for_current_time
            /\ topology_needs_update' = panicked'
       ELSE UNCHANGED <<outputVars, passVars, topology_needs_update>>
    /\ update_call' =
           [made |-> TRUE,
            camera_on_entry |-> camera_needs_update,
            topology_on_entry |-> topology_needs_update,
            outputs_on_entry |-> outputVars,
            returned |-> ~panicked',
            needs_redraw |-> camera_needs_update \/ topology_needs_update]
    /\ UNCHANGED <<all_events, topologyVars, queryVars, callVars, laneVars, shellVars>>

(***************************************************************************)
(* The caller's query: a new time selection, a new highlight selection.    *)
(* Each marks the line geometry dirty.                                     *)
(***************************************************************************)
SelectTime(t) ==
    /\ ~panicked
    /\ current_time_selection' = t
    /\ topology_needs_update' = TRUE
    /\ update_call' = NoUpdate
    /\ UNCHANGED <<all_events, topologyVars, highlight_service_id_list, outputVars,
                   camera_needs_update, passVars, callVars, laneVars, shellVars>>

SelectHighlight(selection) ==
    /\ ~panicked
    /\ highlight_service_id_list' = selection
    /\ topology_needs_update' = TRUE
    /\ update_call' = NoUpdate
    /\ UNCHANGED <<all_events, topologyVars, current_time_selection, outputVars,
                   camera_needs_update, passVars, callVars, laneVars, shellVars>>

(***************************************************************************)
(* State::new, and the State once a topology has been loaded.              *)
(***************************************************************************)
CircleInstance(position, color) == [position |-> position, color |-> color]

\* the fields State::new gives the State
StateNew ==
    /\ all_connections = <<>>
    /\ node_id_to_idx = [n \in {} |-> 0]
    /\ circle_instances = <<CircleInstance(<<-200, 0>>, Srgba(255, 0, 0)),
                            CircleInstance(<<0, 0>>, Srgba(0, 255, 0)),
                            CircleInstance(<<200, 0>>, Srgba(0, 0, 255)),
                            CircleInstance(<<0, 150>>, Srgba(255, 200, 0))>>
    /\ current_time_selection = 0
    /\ highlight_service_id_list = None
    /\ line_vertices = <<>>
    /\ highlight_line_vertices = <<>>
    /\ world_text_labels = <<>>
    /\ topology_needs_update = FALSE
    /\ camera_needs_update = TRUE
    /\ panicked = FALSE
    /\ last_pass = NoPass
    /\ first_snapshot = [t \in QueryTimes |-> NotSeen]

\* State::new in an App whose handshake is over
NewState ==
    /\ StateNew
    /\ update_call = NoUpdate
    /\ camera = NewCamera
    /\ app = RunningApp

\* elements: a sequence of [element_id, location]; the node index and the
\* circle instances are built from it as UserCommand::SetFullTopology does
LoadedState(elements, connections) ==
    /\ all_connections = connections
    /\ node_id_to_idx =
           [id \in {elements[i].element_id : i \in DOMAIN elements} |->
               CHOOSE i \in DOMAIN elements :
                   /\ elements[i].element_id = id
                   /\ \A j \in DOMAIN elements : elements[j].element_id = id => j <= i]
    /\ circle_instances =
           [i \in DOMAIN elements |->
               CircleInstance(<<elements[i].location[1], -elements[i].location[2]>>,
                              NodeDefaultColor)]
    /\ line_vertices = <<>>
    /\ highlight_line_vertices = <<>>
    /\ world_text_labels = <<>>
    /\ camera_needs_update = TRUE
    /\ panicked = FALSE
    /\ last_pass = NoPass
    /\ first_snapshot = [t \in QueryTimes |-> NotSeen]
    /\ update_call = NoUpdate
    /\ camera = NewCamera
    /\ app = RunningApp

(***************************************************************************)
(* The camera: Camera::zoom_by, State::fit_view_to_topology, State::resize *)
(* and the window events of App::window_event that change the camera.      *)
(* Zoom values are fixed-point numbers with six decimals (ZoomUnit is 1.0) *)
(* and every product or quotient is rounded down.                          *)
(***************************************************************************)
ZoomMin == 1000

ZoomMax == 1000000000

\* the largest zoom from which the model still multiplies
MaxZoom == 1100000000

Min(a, b) == IF a < b THEN a ELSE b

Max(a, b) == IF a > b THEN a ELSE b

\* f32::clamp(0.001, 1000.0)
clamp(zoom) == Max(ZoomMin, Min(zoom, ZoomMax))

\* zoom * 1.1 and zoom / 1.1
Times11(zoom) == zoom + zoom \div 10

Over11(zoom) == zoom - zoom \div 11

\* Camera::zoom_by with the wheel's factor: 1.1 when scrolling up, else 1/1.1
zoom_by(scroll_up) ==
    [camera EXCEPT !.zoom = clamp(IF scroll_up THEN Times11(@) ELSE Over11(@)),
                   !.position = "refocused"]

\* WindowEvent::MouseWheel
MouseWheel(scroll_up) ==
    /\ camera.zoom <= MaxZoom
    /\ camera' = zoom_by(scroll_up)
    /\ camera_needs_update' = TRUE
    /\ update_call' = NoUpdate
    /\ UNCHANGED <<all_events, topologyVars, queryVars, outputVars,
                   topology_needs_update, passVars, callVars, laneVars, app>>

\* WindowEvent::KeyboardInput, KeyQ
KeyQ ==
    /\ camera.zoom <= MaxZoom
    /\ camera' = [camera EXCEPT !.zoom = Times11(@)]
    /\ camera_needs_update' = TRUE
    /\ update_call' = NoUpdate
    /\ UNCHANGED <<all_events, topologyVars, queryVars, outputVars,
                   topology_needs_update, passVars, callVars, laneVars, app>>

\* WindowEvent::KeyboardInput, KeyE
KeyE ==
    /\ camera' = [camera EXCEPT !.zoom = Over11(@)]
    /\ camera_needs_update' = TRUE
    /\ update_call' = NoUpdate
    /\ UNCHANGED <<all_events, topologyVars, queryVars, outputVars,
                   topology_needs_update, passVars, callVars, laneVars, app>>

\* WindowEvent::KeyboardInput, W/A/S/D and the arrows: the position moves by
\* 10 / zoom
KeyPan ==
    /\ camera' = [camera EXCEPT !.position = "panned"]
    /\ camera_needs_update' = TRUE
    /\ update_call' = NoUpdate
    /\ UNCHANGED <<all_events, topologyVars, queryVars, outputVars,
                   topology_needs_update, passVars, callVars, laneVars, app>>

\* WindowEvent::MouseInput, left button: start_panning or end_panning
MouseInput(pressed) ==
    /\ camera' = [camera EXCEPT !.is_panning = pressed]
    /\ camera_needs_update' = (pressed \/ camera_needs_update)
    /\ update_call' = NoUpdate
    /\ UNCHANGED <<all_events, topologyVars, queryVars, outputVars,
                   topology_needs_update, passVars, callVars, laneVars, app>>

\* WindowEvent::CursorMoved: Camera::pan while the left button is held
CursorMoved ==
    /\ camera.is_panning
    /\ camera' = [camera EXCEPT !.position = "panned"]
    /\ camera_needs_update' = TRUE
    /\ update_call' = NoUpdate
    /\ UNCHANGED <<all_events, topologyVars, queryVars, outputVars,
                   topology_needs_update, passVars, callVars, laneVars, app>>

\* WindowEvent::Resized: State::resize, Camera::update_aspect_ratio
Resized(size) ==
    /\ IF size[1] > 0 /\ size[2] > 0
       THEN /\ camera' = [camera EXCEPT !.viewport_size = size]
            /\ camera_needs_update' = TRUE
       ELSE UNCHANGED <<camera, camera_needs_update>>
    /\ update_call' = NoUpdate
    /\ UNCHANGED <<all_events, topologyVars, queryVars, outputVars,
                   topology_needs_update, passVars, callVars, laneVars, app>>

\* radius_scale of the loaded nodes (20.2) in tenths, PADDING_MULTIPLIER (1.2)
\* in tenths, MIN_VISIBLE_WORLD_DIM (200.0) in hundredths
RadiusScaleTenths == 202

PaddingTenths == 12

MinVisibleHundredths == 20000

\* a padded extent of the bounding box, in hundredths
PaddedExtent(lo, hi) == 100 * (hi - lo) + 2 * (PaddingTenths * RadiusScaleTenths)

Coordinates(axis) == {circle_instances[i].position[axis] : i \in DOMAIN circle_instances}

Least(S) == CHOOSE x \in S : \A y \in S : x <= y

Greatest(S) == CHOOSE x \in S : \A y \in S : x >= y

\* State::fit_view_to_topology
fit_view_to_topology ==
    /\ IF circle_instances = <<>>
       THEN camera' = [camera EXCEPT !.position = "origin", !.zoom = ZoomUnit]
       ELSE LET target_world_width ==
                    Max(PaddedExtent(Least(Coordinates(1)), Greatest(Coordinates(1))),
                        MinVisibleHundredths)
                target_world_height ==
                    Max(PaddedExtent(Least(Coordinates(2)), Greatest(Coordinates(2))),
                        MinVisibleHundredths)
                zoom_x ==
                    (((200 * ZoomUnit) \div target_world_width)
                        * camera.viewport_size[1]) \div camera.viewport_size[2]
                zoom_y == (200 * ZoomUnit) \div target_world_height
            IN camera' = [camera EXCEPT !.position = "fitted",
                                        !.zoom = clamp(Min(zoom_x, zoom_y))]
    /\ camera_needs_update' = TRUE
    /\ update_call' = NoUpdate
    /\ UNCHANGED <<all_events, topologyVars, queryVars, outputVars,
                   topology_needs_update, passVars, callVars, laneVars, app>>

(***************************************************************************)
(* The initialisation handshake of the wasm32 build (lib.rs): App::resumed *)
(* spawns the task that creates the State, stores it in the App and sends  *)
(* UserCommand::StateInitialized through the event loop proxy; the page    *)
(* sends commands through WasmApi at any time; App::user_event takes the   *)
(* user events in the order they were sent.                                *)
(***************************************************************************)
MaxCommands == 3

\* App::new: no window, no State, the proxy handed to WasmApi
NewApp ==
    [task |-> "not_spawned", state |-> FALSE, events |-> <<>>, ready |-> FALSE,
     next_command |-> 1, handled |-> {}]

StateInitialized == [kind |-> "StateInitialized"]

\* the command of WasmApi::set_full_topology; sent_after_ready notes whether
\* the ready promise had been resolved when the page sent it
SetFullTopology(id, nodes, links, sent_after_ready) ==
    [kind |-> "SetFullTopology", id |-> id, nodes |-> nodes, links |-> links,
     sent_after_ready |-> sent_after_ready]

NodeData(id, position) == [id |-> id, position |-> position, color |-> Srgba(0, 93, 93)]

LinkData(source_id, target_id) ==
    [source_id |-> source_id, target_id |-> target_id, color |-> link_boundary_color]

CommandTopologies ==
    {[nodes |-> <<NodeData(1, <<0, 0>>), NodeData(2, <<4, 3>>)>>,
      links |-> <<LinkData(1, 2), LinkData(1, 9)>>],
     [nodes |-> <<NodeData(7, <<8, 0>>)>>, links |-> <<>>]}

\* App::resumed: the window is created and the task is spawned
Resumed ==
    /\ app.task = "not_spawned"
    /\ app' = [app EXCEPT !.task = "creating"]
    /\ UNCHANGED <<all_events, stateVars, callVars, laneVars, update_call, camera>>

\* the spawned task ended with the State created and stored while nothing
\* told the event loop
StateCreated_unstored ==
    /\ app.task = "creating"
    /\ app' = [app EXCEPT !.task = "done",
                          !.events = Append(@, StateInitialized)]
    /\ UNCHANGED <<all_events, stateVars, callVars, laneVars, update_call, camera>>

\* the spawned task, State::new returned Ok: resize, the State is stored in
\* the App, then StateInitialized is sent (no await in between)
StateCreated ==
    /\ app.task = "creating"
    /\ app' = [app EXCEPT !.task = "done",
                          !.state = TRUE,
                          !.events = Append(@, StateInitialized)]
    /\ UNCHANGED <<all_events, stateVars, callVars, laneVars, update_call, camera>>

\* the spawned task, State::new returned Err: logged, nothing stored or sent
StateFailed ==
    /\ app.task = "creating"
    /\ app' = [app EXCEPT !.task = "failed"]
    /\ UNCHANGED <<all_events, stateVars, callVars, laneVars, update_call, camera>>

\* WasmApi::set_full_topology: the command goes to the event loop
SendCommand(topology) ==
    /\ app.next_command <= MaxCommands
    /\ app' = [app EXCEPT
                  !.events = Append(@, SetFullTopology(app.next_command, topology.nodes,
                                                       topology.links, app.ready)),
                  !.next_command = @ + 1]
    /\ UNCHANGED <<all_events, stateVars, callVars, laneVars, update_call, camera>>

\* the line between the centres of a link's nodes, when both ids are known
RECURSIVE LinkLines(_, _, _)
LinkLines(nodes, links, k) ==
    IF k > Len(links) THEN <<>>
    ELSE LET source == {i \in DOMAIN nodes : nodes[i].id = links[k].source_id}
             target == {i \in DOMAIN nodes : nodes[i].id = links[k].target_id}
         IN (IF source # {} /\ target # {}
             THEN <<[start |-> nodes[Greatest(source)].position,
                     end |-> nodes[Greatest(target)].position,
                     color |-> links[k].color,
                     of |-> [kind |-> "link", owner |-> k, index |-> 0]]>>
             ELSE <<>>)
            \o LinkLines(nodes, links, k + 1)

\* State::process_command of lib.rs, UserCommand::SetFullTopology
process_command(command) ==
    /\ circle_instances' =
           [i \in DOMAIN command.nodes |->
               CircleInstance(command.nodes[i].position, command.nodes[i].color)]
    /\ line_vertices' = LinkLines(command.nodes, command.links, 1)
    /\ UNCHANGED <<all_events, topologyVars, queryVars, highlight_line_vertices,
                   world_text_labels, flagVars, passVars>>

\* App::user_event on the oldest user event
UserEvent ==
    /\ app.events # <<>>
    /\ LET event == Head(app.events)
       IN IF event.kind = "StateInitialized"
          THEN /\ app' = [app EXCEPT !.events = Tail(@), !.ready = TRUE]
               /\ UNCHANGED <<all_events, stateVars>>
          ELSE IF app.state
          THEN /\ process_command(event)
               /\ app' = [app EXCEPT
                             !.events = Tail(@),
                             !.handled = @ \cup {[id |-> event.id,
                                                  sent_after_ready |->
                                                      event.sent_after_ready,
                                                  state_present |-> TRUE,
                                                  outcome |-> "applied"]}]
          ELSE /\ app' = [app EXCEPT
                             !.events = Tail(@),
                             !.handled = @ \cup {[id |-> event.id,
                                                  sent_after_ready |->
                                                      event.sent_after_ready,
                                                  state_present |-> FALSE,
                                                  outcome |-> "discarded"]}]
               /\ UNCHANGED <<all_events, stateVars>>
    /\ update_call' = NoUpdate
    /\ UNCHANGED <<callVars, laneVars, camera>>

(***************************************************************************)
(* Replay specification: an event log drawn from a bounded set (sorted or  *)
(* not: the log is stored as it is received), and calls of                 *)
(* reconstruct_state_at_time on it.                                        *)
(***************************************************************************)
SvcA == ServiceData(0, 2, <<"A", "B">>, 0)
SvcB == ServiceData(1, 3, <<"B", "A">>, 79)
SvcC == ServiceData(0, 3, <<"A", "B", "C">>, 40)

ReplayEvents ==
    {Allocation(ts, id, s) : ts \in Times, id \in ServiceIds, s \in {SvcA, SvcB}}
    \cup {ReleaseExpired(ts, id) : ts \in Times, id \in ServiceIds}
    \cup {Reallocation(ts, id, 1, SvcC) : ts \in Times, id \in ServiceIds}

(***************************************************************************)
(* The highlight resolver, resolve(event_log, selected_service_id), and    *)
(* the selection of a service by the caller.                               *)
(***************************************************************************)
\* the events that make the selected id known: its Allocation events
AllocationsOf(events, selected) ==
    {i \in DOMAIN events :
        events[i].type = "Allocation" /\ events[i].service_id = selected}

\* the Reallocation events that stem from the selected id
ReallocationsFrom_none(events, selected) == {}

ReallocationsFrom(events, selected) ==
    {i \in DOMAIN events :
        /\ events[i].type = "Reallocation"
        /\ events[i].details.defrag_service_id = selected}

\* related_service_ids, in scan order from event i on
RECURSIVE related_service_ids(_, _, _)
related_service_ids(events, selected, i) ==
    IF i > Len(events) THEN <<>>
    ELSE (IF i \in AllocationsOf(events, selected) THEN <<selected>>
          ELSE IF i \in ReallocationsFrom(events, selected)
               THEN <<events[i].service_id>>
               ELSE <<>>)
         \o related_service_ids(events, selected, i + 1)

\* the events whose carried arrival_time may be the captured one: an
\* Allocation of the selected id (which one, if there are several, is not
\* determined), else the first Reallocation that stems from it
CapturedFrom(events, selected) ==
    IF AllocationsOf(events, selected) # {} THEN AllocationsOf(events, selected)
    ELSE LET reallocations == ReallocationsFrom(events, selected)
         IN {i \in reallocations : \A j \in reallocations : i <= j}

ArrivalCarried(event) ==
    IF event.type = "Allocation" THEN event.details.arrival_time
    ELSE event.details.service.arrival_time

\* the outcomes of resolve; the empty set is "not found"
resolve(events, selected) ==
    {[related |-> related_service_ids(events, selected, 1),
      query_time |-> ArrivalCarried(events[i]) + Epsilon,
      captured_from |-> i] : i \in CapturedFrom(events, selected)}

NoResolve ==
    [made |-> FALSE, selected |-> 0, found |-> FALSE, related |-> <<>>,
     query_time |-> 0, captured_from |-> 0,
     previous |-> [time |-> 0, highlight |-> None]]

\* the caller selects a service: on success the highlight list and the
\* query time are replaced and the geometry is marked dirty; on "not found"
\* nothing is changed
SelectService(selected) ==
    /\ ~panicked
    /\ IF resolve(all_events, selected) = {}
       THEN /\ rs_call' = [made |-> TRUE, selected |-> selected, found |-> FALSE,
                           related |-> <<>>, query_time |-> 0, captured_from |-> 0,
                           previous |-> [time |-> current_time_selection,
                                         highlight |-> highlight_service_id_list]]
            /\ UNCHANGED <<queryVars, topology_needs_update>>
       ELSE \E outcome \in resolve(all_events, selected) :
               /\ outcome.query_time \in QueryTimes
               /\ rs_call' = [made |-> TRUE, selected |-> selected, found |-> TRUE,
                              related |-> outcome.related,
                              query_time |-> outcome.query_time,
                              captured_from |-> outcome.captured_from,
                              previous |-> [time |-> current_time_selection,
                                            highlight |-> highlight_service_id_list]]
               /\ highlight_service_id_list' = Some(outcome.related)
               /\ current_time_selection' = outcome.query_time
               /\ topology_needs_update' = TRUE
    /\ update_call' = NoUpdate
    /\ UNCHANGED <<all_events, topologyVars, outputVars, camera_needs_update,
                   passVars, rc_call, reload, laneVars, shellVars>>

(***************************************************************************)
(* The topology and the log loaded again without their references to       *)
(* unknown node ids: links with an unknown end are left out, unknown ids   *)
(* are left out of the paths.                                              *)
(***************************************************************************)
NoReload == [done |-> FALSE]

RECURSIVE KnownOnly(_)
KnownOnly(path) ==
    IF path = <<>> THEN <<>>
    ELSE (IF Known(Head(path)) THEN <<Head(path)>> ELSE <<>>) \o KnownOnly(Tail(path))

WithoutUnknown(event) ==
    CASE event.type = "Allocation" ->
            [event EXCEPT !.details.path = KnownOnly(@)]
      [] event.type = "Reallocation" ->
            [event EXCEPT !.details.service.path = KnownOnly(@)]
      [] event.type = "ReleaseExpired" -> event

RECURSIVE KnownLinks(_)
KnownLinks(connections) ==
    IF connections = <<>> THEN <<>>
    ELSE (IF Known(Head(connections).from_node) /\ Known(Head(connections).to_node)
          THEN <<Head(connections)>> ELSE <<>>) \o KnownLinks(Tail(connections))

ReloadWithoutUnknown ==
    /\ ~panicked
    /\ ~reload.done
    /\ last_pass.done
    /\ all_connections' = KnownLinks(all_connections)
    /\ all_events' = [i \in DOMAIN all_events |-> WithoutUnknown(all_events[i])]
    /\ topology_needs_update' = TRUE
    /\ reload' = [done |-> TRUE]
    /\ update_call' = NoUpdate
    /\ UNCHANGED <<node_id_to_idx, queryVars, outputVars, camera_needs_update,
                   passVars, rc_call, rs_call, laneVars, shellVars>>

RECURSIVE SeqsUpTo(_, _)
SeqsUpTo(S, n) ==
    IF n = 0 THEN {<<>>}
    ELSE LET shorter == SeqsUpTo(S, n - 1)
         IN shorter \cup {Append(q, e) : q \in {x \in shorter : Len(x) = n - 1}, e \in S}

NoCall == [made |-> FALSE, time |-> 0, applied |-> <<>>, dict |-> EmptyDict]

NoLanes == [done |-> FALSE]

InitReplay ==
    /\ all_events \in SeqsUpTo(ReplayEvents, MaxLogLen)
    /\ NewState
    /\ rc_call = NoCall
    /\ rs_call = NoResolve
    /\ reload = NoReload
    /\ lane_in = <<0, 0>>
    /\ lane_out = NoLanes

ReconstructCall(t) ==
    /\ rc_call' = [made |-> TRUE, time |-> t,
                   applied |-> AppliedEvents(all_events, t),
                   dict |-> reconstruct_state_at_time(all_events, t)]
    /\ UNCHANGED <<all_events, stateVars, rs_call, reload, laneVars, update_call,
                   shellVars>>

NextReplay == \E t \in Times : ReconstructCall(t)

SpecReplay == InitReplay /\ [][NextReplay]_vars

(***************************************************************************)
(* Layout specification: one layout pass over a loaded topology, an event  *)
(* log, a time selection and a highlight selection.                        *)
(***************************************************************************)
MaxLayoutLogLen == 2

Element(element_id, location) == [element_id |-> element_id, location |-> location]

Link(from_node, to_node) == [from_node |-> from_node, to_node |-> to_node]

\* A is fixed; B may coincide with A; C may coincide with B
LayoutElements ==
    {<<Element("A", <<0, 0>>), Element("B", b), Element("C", c)>> :
        b \in {<<0, 0>>, <<4, 3>>, <<4, 0>>}, c \in {<<4, 3>>, <<8, 0>>}}

\* "Z" is no element of the topology
LayoutConnections == <<Link("A", "B"), Link("C", "B"), Link("A", "Z")>>

P0 == ServiceData(0, 2, <<"B">>, 40)
P1 == ServiceData(0, 1, <<"A", "B">>, 0)
P2 == ServiceData(1, 2, <<"C", "B", "A">>, 79)
P3 == ServiceData(0, 2, <<"A", "B", "Z">>, 85)

LayoutEvents ==
    {Allocation(ts, 1, s) : ts \in Times, s \in {P1, P3}}
    \cup {Allocation(ts, 2, P2) : ts \in Times}
    \cup {ReleaseExpired(ts, id) : ts \in Times, id \in ServiceIds}
    \cup {Reallocation(ts, 2, 1, P0) : ts \in Times}

Highlights == {None, Some(<<>>), Some(<<1>>), Some(<<2, 1>>)}

InitLayout ==
    /\ all_events \in SeqsUpTo(LayoutEvents, MaxLayoutLogLen)
    /\ \E elements \in LayoutElements : LoadedState(elements, LayoutConnections)
    /\ current_time_selection \in Times
    /\ highlight_service_id_list \in Highlights
    /\ topology_needs_update = TRUE
    /\ rc_call = NoCall
    /\ rs_call = NoResolve
    /\ reload = NoReload
    /\ lane_in = <<0, 0>>
    /\ lane_out = NoLanes

NextLayout == Update

SpecLayout == InitLayout /\ [][NextLayout]_vars

(***************************************************************************)
(* The machine: a loaded State on which the caller selects times and       *)
(* highlights, the event loop runs State::update, and the log is replayed  *)
(* directly.                                                               *)
(***************************************************************************)
MachineElements ==
    <<Element("A", <<0, 0>>), Element("B", <<4, 3>>), Element("C", <<8, 0>>)>>

MachineLogs ==
    {<<Allocation(0, 1, P1), Allocation(1, 2, P2)>>,
     <<Allocation(0, 1, P3), ReleaseExpired(1, 1)>>,
     <<Allocation(1, 1, P1), Allocation(0, 2, P2)>>,
     <<Allocation(0, 1, P1), Reallocation(1, 2, 1, P2), ReleaseExpired(1, 1)>>,
     <<Allocation(0, 1, P3), Allocation(1, 2, P2)>>}

MachineHighlights == {None, Some(<<1>>)}

\* the ids the caller may select: 3 is the id of no event
SelectableIds == ServiceIds \cup {3}

Init ==
    /\ all_events \in MachineLogs
    /\ LoadedState(MachineElements, LayoutConnections)
    /\ current_time_selection = 0
    /\ highlight_service_id_list = None
    /\ topology_needs_update = TRUE
    /\ rc_call = NoCall
    /\ rs_call = NoResolve
    /\ reload = NoReload
    /\ lane_in = <<0, 0>>
    /\ lane_out = NoLanes

Next ==
    \/ \E t \in Times : SelectTime(t)
    \/ \E selection \in MachineHighlights : SelectHighlight(selection)
    \/ Update
    \/ \E t \in Times : ReconstructCall(t)

Spec == Init /\ [][Next]_vars

(***************************************************************************)
(* Malformed-reference specification: a layout pass over links and paths   *)
(* that name the unknown node "Z", then the same inputs loaded without     *)
(* those references, then a second pass.                                   *)
(***************************************************************************)
MalformedConnections ==
    <<Link("A", "Z"), Link("A", "B"), Link("Z", "C"), Link("C", "B")>>

P4 == ServiceData(0, 2, <<"Z", "A", "B">>, 40)
P5 == ServiceData(0, 2, <<"A", "Z", "B">>, 41)

MalformedLogs ==
    {<<Allocation(0, 1, P3)>>,
     <<Allocation(0, 1, P4), Allocation(1, 2, P2)>>,
     <<Allocation(0, 1, P3), Allocation(0, 2, P4)>>,
     <<Allocation(0, 1, P1), Reallocation(0, 2, 1, P4)>>,
     <<Allocation(0, 2, P5), Allocation(0, 1, P1)>>}

InitMalformed ==
    /\ all_events \in MalformedLogs
    /\ \E elements \in LayoutElements : LoadedState(elements, MalformedConnections)
    /\ current_time_selection \in Times
    /\ highlight_service_id_list \in MachineHighlights
    /\ topology_needs_update = TRUE
    /\ rc_call = NoCall
    /\ rs_call = NoResolve
    /\ reload = NoReload
    /\ lane_in = <<0, 0>>
    /\ lane_out = NoLanes

NextMalformed == Update \/ ReloadWithoutUnknown

SpecMalformed == InitMalformed /\ [][NextMalformed]_vars

(***************************************************************************)
(* Resolver specification: one selection of a service on a loaded State    *)
(* with any event log, a time selection and possibly a highlight in place. *)
(***************************************************************************)
MaxResolveLogLen == 2

ResolveEvents ==
    {Allocation(ts, id, SvcA) : ts \in QueryTimes, id \in ServiceIds}
    \cup {Allocation(ts, 2, SvcB) : ts \in QueryTimes}
    \cup {ReleaseExpired(ts, id) : ts \in QueryTimes, id \in ServiceIds}
    \cup {Reallocation(ts, id, 1, SvcC) : ts \in QueryTimes, id \in ServiceIds}

InitResolve ==
    /\ all_events \in SeqsUpTo(ResolveEvents, MaxResolveLogLen)
    /\ LoadedState(MachineElements, LayoutConnections)
    /\ current_time_selection \in Times
    /\ highlight_service_id_list \in MachineHighlights
    /\ topology_needs_update = TRUE
    /\ rc_call = NoCall
    /\ rs_call = NoResolve
    /\ reload = NoReload
    /\ lane_in = <<0, 0>>
    /\ lane_out = NoLanes

NextResolve == \E selected \in SelectableIds : SelectService(selected)

SpecResolve == InitResolve /\ [][NextResolve]_vars

(***************************************************************************)
(* Lane specification: the wavelength indices of two services drawn from   *)
(* 0..MaxWavelength (indices >= MAX_WAVELENGTHS included), and the lane    *)
(* computation applied to both.                                            *)
(***************************************************************************)
Wavelengths == 0..MaxWavelength

(***************************************************************************)
(* Shared-link specification: one layout pass over two nodes A and B, B in *)
(* each of eight directions from A, and two active services on the link    *)
(* A-B, the second in either path direction, each on any wavelength.       *)
(***************************************************************************)
Directions ==
    {<<4, 0>>, <<4, 3>>, <<0, 3>>, <<-4, 3>>, <<-4, 0>>, <<-4, -3>>, <<0, -3>>, <<4, -3>>}

\* the lanes of the second service: both ends and the middle of the fan,
\* each with its mirror image, and one index past the fan
MirrorLane(w) == MAX_WAVELENGTHS - 1 - w

SecondLanes == {0, 1, 39, MirrorLane(39), MirrorLane(1), MirrorLane(0), MaxWavelength}

SharedLinkLogs ==
    {<<Allocation(0, 1, ServiceData(0, 2, <<"A", "B">>, w1)),
       Allocation(0, 2, ServiceData(0, 2, path, w2))>> :
        w1 \in Wavelengths, w2 \in SecondLanes,
        path \in {<<"A", "B">>, <<"B", "A">>}}

InitSharedLink ==
    /\ all_events \in SharedLinkLogs
    /\ \E b \in Directions :
          LoadedState(<<Element("A", <<0, 0>>), Element("B", b)>>, <<Link("A", "B")>>)
    /\ current_time_selection = 0
    /\ highlight_service_id_list \in {None, Some(<<1, 2>>)}
    /\ topology_needs_update = TRUE
    /\ rc_call = NoCall
    /\ rs_call = NoResolve
    /\ reload = NoReload
    /\ lane_in = <<0, 0>>
    /\ lane_out = NoLanes

NextSharedLink == Update

SpecSharedLink == InitSharedLink /\ [][NextSharedLink]_vars

(***************************************************************************)
(* Elbow specification: one layout pass over three nodes at different      *)
(* positions and one active service whose path visits two or three of      *)
(* them, thin or thick.  With C at (-4, -3) or at (2, 0) the three nodes   *)
(* are on one line and some paths double back along it.                    *)
(***************************************************************************)
ElbowElements ==
    {<<Element("A", <<0, 0>>), Element("B", b), Element("C", c)>> :
        b \in {<<4, 3>>, <<4, 0>>}, c \in {<<8, 0>>, <<4, -3>>, <<-4, -3>>, <<2, 0>>}}

ElbowPaths ==
    {<<"A", "B">>, <<"A", "B", "C">>, <<"C", "B", "A">>, <<"B", "A", "C">>,
     <<"C", "A", "B">>, <<"A", "C", "B">>, <<"B", "C", "A">>}

ElbowLanes == {0, 39, MirrorLane(39), MirrorLane(0), MaxWavelength}

InitElbow ==
    /\ \E path \in ElbowPaths, w \in ElbowLanes :
          all_events = <<Allocation(0, 1, ServiceData(0, 2, path, w))>>
    /\ \E elements \in ElbowElements : LoadedState(elements, LayoutConnections)
    /\ current_time_selection \in Times
    /\ highlight_service_id_list \in {None, Some(<<1>>), Some(<<2>>)}
    /\ topology_needs_update = TRUE
    /\ rc_call = NoCall
    /\ rs_call = NoResolve
    /\ reload = NoReload
    /\ lane_in = <<0, 0>>
    /\ lane_out = NoLanes

NextElbow == Update

SpecElbow == InitElbow /\ [][NextElbow]_vars

(***************************************************************************)
(* Camera specification: a State with a loaded topology (small, wider than *)
(* the smallest zoom can show, or empty) and a camera at zoom 1.0, on      *)
(* which the window events and fit_view_to_topology act.                   *)
(***************************************************************************)
CameraElements ==
    {MachineElements,
     <<Element("A", <<0, 0>>), Element("B", <<4000, 0>>)>>,
     <<>>}

ViewportSizes == {<<600, 800>>, <<0, 0>>}

InitCamera ==
    /\ all_events = <<>>
    /\ \E elements \in CameraElements : LoadedState(elements, <<Link("A", "B")>>)
    /\ current_time_selection = 0
    /\ highlight_service_id_list = None
    /\ topology_needs_update = TRUE
    /\ rc_call = NoCall
    /\ rs_call = NoResolve
    /\ reload = NoReload
    /\ lane_in = <<0, 0>>
    /\ lane_out = NoLanes

NextCamera ==
    \/ \E scroll_up \in BOOLEAN : MouseWheel(scroll_up)
    \/ KeyQ
    \/ KeyE
    \/ KeyPan
    \/ \E pressed \in BOOLEAN : MouseInput(pressed)
    \/ CursorMoved
    \/ \E size \in ViewportSizes : Resized(size)
    \/ fit_view_to_topology
    \/ Update

SpecCamera == InitCamera /\ [][NextCamera]_vars

(***************************************************************************)
(* Handshake specification: App::new, then App::resumed, the spawned task, *)
(* the page's commands and the event loop's user events in any order.  The *)
(* State variables hold what State::new builds.                            *)
(***************************************************************************)
InitHandshake ==
    /\ all_events = <<>>
    /\ StateNew
    /\ rc_call = NoCall
    /\ rs_call = NoResolve
    /\ reload = NoReload
    /\ lane_in = <<0, 0>>
    /\ lane_out = NoLanes
    /\ update_call = NoUpdate
    /\ camera = NewCamera
    /\ app = NewApp

NextHandshake ==
    \/ Resumed
    \/ StateCreated
    \/ StateFailed
    \/ \E topology \in CommandTopologies : SendCommand(topology)
    \/ UserEvent

SpecHandshake == InitHandshake /\ [][NextHandshake]_vars

InitLane ==
    /\ all_events = <<>>
    /\ NewState
    /\ rc_call = NoCall
    /\ rs_call = NoResolve
    /\ reload = NoReload
    /\ lane_in \in Wavelengths \X Wavelengths
    /\ lane_out = NoLanes

ComputeLanes ==
    /\ ~lane_out.done
    /\ lane_out' = [done |-> TRUE, a |-> LaneOf(lane_in[1]), b |-> LaneOf(lane_in[2])]
    /\ UNCHANGED <<all_events, stateVars, callVars, lane_in, update_call, shellVars>>

NextLane == ComputeLanes

SpecLane == InitLane /\ [][NextLane]_vars

(***************************************************************************)
(* Helpers of the claims about the reconstructor.                          *)
(***************************************************************************)
(* C6.  Idempotence and purity of reconstruction: whatever reconstruct and *)
(* layout calls were made in between, a call of reconstruct_state_at_time  *)
(* with the same log and the same target_time yields the map that the      *)
(* first call with that target_time yielded, and no call changes the event *)
(* log.                                                                    *)
(***************************************************************************)
SameMapAsFirst(time, dict) ==
    first_snapshot[time].seen => dict = first_snapshot[time].dict

C6_SameMaps ==
    /\ rc_call.made =>
          /\ SameMapAsFirst(rc_call.time, rc_call.dict)
          /\ rc_call.dict = reconstruct_state_at_time(all_events, rc_call.time)
    /\ last_pass.done =>
          /\ SameMapAsFirst(last_pass.time, last_pass.snapshot)
          /\ last_pass.snapshot = reconstruct_state_at_time(all_events, last_pass.time)

Segments == Range(line_vertices) \cup Range(highlight_line_vertices)

HasGeometry(service_id) ==
    \E segment \in Segments :
        /\ segment.of.kind \in {"hop", "elbow"}
        /\ segment.of.owner = service_id

Eligible(service_id) ==
    /\ service_id \in DOMAIN last_pass.snapshot
    /\ last_pass.snapshot[service_id].arrival_time <= last_pass.time
    /\ last_pass.time < last_pass.snapshot[service_id].departure_time

DrawableHop(path, i) ==
    /\ Known(path[i + 1])
    /\ Known(path[i + 2])
    /\ Centre(path[i + 1]) # Centre(path[i + 2])

HopSegments(service_id, i) ==
    {segment \in Segments :
        segment.of = [kind |-> "hop", owner |-> service_id, index |-> i]}

C7_WitnessEarly ==
    /\ last_pass.done
    /\ ~panicked
    /\ \E service_id \in DOMAIN last_pass.snapshot :
          /\ last_pass.snapshot[service_id].arrival_time > last_pass.time
          /\ ~HasGeometry(service_id)

(***************************************************************************)
(* C10.  Degenerate skip for links and hops: after a layout pass, a link   *)
(* between two nodes with identical coordinates has no boundary segment, a *)
(* hop between two consecutive path nodes with identical coordinates has   *)
(* no hop segment, thin or thick; every other link between known nodes has *)
(* its two boundary segments and every other hop between known nodes of an *)
(* active service has its segment; no boundary or hop vertex is NaN; and   *)
(* the pass fails only on a path of fewer than 2 nodes.                    *)
(***************************************************************************)
BoundarySegments(k) ==
    {n \in DOMAIN line_vertices :
        line_vertices[n].of = [kind |-> "boundary", owner |-> k, index |-> 0]}

KnownLink(k) == Known(all_connections[k].from_node) /\ Known(all_connections[k].to_node)

CoincidentLink(k) ==
    /\ KnownLink(k)
    /\ Centre(all_connections[k].from_node) = Centre(all_connections[k].to_node)

CoincidentHop(path, i) ==
    /\ Known(path[i + 1])
    /\ Known(path[i + 2])
    /\ Centre(path[i + 1]) = Centre(path[i + 2])

ShortPathActive ==
    \E service_id \in ServiceIds :
        Eligible(service_id) /\ Len(last_pass.snapshot[service_id].path) < 2

C10_DegenerateSkip ==
    last_pass.done =>
        /\ \A k \in DOMAIN all_connections :
              /\ CoincidentLink(k) => BoundarySegments(k) = {}
              /\ (KnownLink(k) /\ ~CoincidentLink(k))
                    => Cardinality(BoundarySegments(k)) = 2
        /\ \A service_id \in DOMAIN last_pass.snapshot :
              LET path == last_pass.snapshot[service_id].path
              IN \A i \in 0..(Len(path) - 2) :
                    /\ CoincidentHop(path, i) => HopSegments(service_id, i) = {}
                    /\ (DrawableHop(path, i) /\ Eligible(service_id) /\ ~panicked)
                          => HopSegments(service_id, i) # {}
        /\ \A segment \in Segments :
              segment.of.kind \in {"boundary", "hop"}
                  => ~IsNaN(segment.start) /\ ~IsNaN(segment.end)
        /\ panicked => ShortPathActive

\* a pass over a coincident link and a coincident hop of an active service,
\* with another link and another hop of the same service drawn
C10_Witness ==
    /\ last_pass.done
    /\ ~panicked
    /\ \E k \in DOMAIN all_connections : CoincidentLink(k)
    /\ \E k \in DOMAIN all_connections : BoundarySegments(k) # {}
    /\ \E service_id \in ServiceIds :
          /\ Eligible(service_id)
          /\ LET path == last_pass.snapshot[service_id].path
             IN /\ \E i \in 0..(Len(path) - 2) : CoincidentHop(path, i)
                /\ \E i \in 0..(Len(path) - 2) : HopSegments(service_id, i) # {}

\* the same in the thick mode: the service is highlighted
C10_WitnessThick ==
    /\ last_pass.done
    /\ ~panicked
    /\ \E service_id \in Range(highlight_service_id_list.ids) :
          /\ Eligible(service_id)
          /\ LET path == last_pass.snapshot[service_id].path
             IN /\ \E i \in 0..(Len(path) - 2) : CoincidentHop(path, i)
                /\ \E i \in 0..(Len(path) - 2) :
                      \E n \in DOMAIN highlight_line_vertices :
                          highlight_line_vertices[n].of =
                              [kind |-> "hop", owner |-> service_id, index |-> i]

(***************************************************************************)
IsSorted(events) ==
    \A i \in 1..Len(events) - 1 : timestamp(events[i]) <= timestamp(events[i + 1])

IsPrefix(p, q) == Len(p) <= Len(q) /\ \A i \in 1..Len(p) : p[i] = q[i]

\* the indices of all the events with timestamp <= t, in log order
RECURSIVE IndicesUpTo(_, _, _)
IndicesUpTo(events, t, i) ==
    IF i > Len(events) THEN <<>>
    ELSE IF timestamp(events[i]) <= t THEN <<i>> \o IndicesUpTo(events, t, i + 1)
    ELSE IndicesUpTo(events, t, i + 1)

\* insert / overwrite / remove, as the claims state them
RECURSIVE ApplyAll(_, _, _)
ApplyAll(events, indices, n) ==
    IF n = 0 THEN [k \in {} |-> 0]
    ELSE LET before == ApplyAll(events, indices, n - 1)
             e == events[indices[n]]
         IN IF e.type = "ReleaseExpired"
            THEN [k \in (DOMAIN before) \ {e.service_id} |-> before[k]]
            ELSE [k \in (DOMAIN before) \cup {e.service_id} |->
                     IF k = e.service_id
                     THEN (IF e.type = "Allocation" THEN e.details ELSE e.details.service)
                     ELSE before[k]]

\* C1: the log is Allocation(a, id, S) followed by ReleaseExpired(r, id), a <= r
RoundTripLog ==
    /\ Len(all_events) = 2
    /\ all_events[1].type = "Allocation"
    /\ all_events[2].type = "ReleaseExpired"
    /\ all_events[1].service_id = all_events[2].service_id
    /\ timestamp(all_events[1]) <= timestamp(all_events[2])

\* C1: Allocation/Release round trip: on a log Allocation(a, id, S),
\* ReleaseExpired(r, id) with a <= r, the map at t holds id |-> S for
\* a <= t < r and does not hold id for t >= r.
C1_RoundTrip ==
    (rc_call.made /\ RoundTripLog) =>
        LET a == timestamp(all_events[1])
            r == timestamp(all_events[2])
            id == all_events[1].service_id
            t == rc_call.time
        IN /\ (a <= t /\ t < r) =>
                (id \in DOMAIN rc_call.dict /\ rc_call.dict[id] = all_events[1].details)
           /\ (t >= r) => id \notin DOMAIN rc_call.dict

C1_Witness ==
    /\ rc_call.made /\ RoundTripLog
    /\ timestamp(all_events[1]) < timestamp(all_events[2])
    /\ rc_call.time = timestamp(all_events[2])
    /\ all_events[1].service_id \notin DOMAIN rc_call.dict

\* C2: the log begins with Allocation(a, id, S1), Reallocation(b, id, S2), a <= b
OverwriteLog ==
    /\ Len(all_events) >= 2
    /\ all_events[1].type = "Allocation"
    /\ all_events[2].type = "Reallocation"
    /\ all_events[1].service_id = all_events[2].service_id
    /\ timestamp(all_events[1]) <= timestamp(all_events[2])

NoLaterEventOn(id, t) ==
    \A i \in 3..Len(all_events) :
        ~(all_events[i].service_id = id /\ timestamp(all_events[i]) <= t)

\* C2: Reallocation overwrite: after Allocation(a, id, S1) and
\* Reallocation(b, id, S2), the map at t holds id |-> S2 for t >= b when no
\* later event on id has timestamp <= t, and id |-> S1 for a <= t < b.
C2_Overwrite ==
    (rc_call.made /\ OverwriteLog) =>
        LET a == timestamp(all_events[1])
            b == timestamp(all_events[2])
            id == all_events[1].service_id
            t == rc_call.time
        IN /\ (t >= b /\ NoLaterEventOn(id, t)) =>
                (id \in DOMAIN rc_call.dict
                 /\ rc_call.dict[id] = all_events[2].details.service
                 /\ rc_call.dict[id] # all_events[1].details)
           /\ (a <= t /\ t < b) =>
                (id \in DOMAIN rc_call.dict /\ rc_call.dict[id] = all_events[1].details)

C2_Witness ==
    /\ rc_call.made /\ OverwriteLog
    /\ Len(all_events) = 3
    /\ all_events[2].details.defrag_service_id # all_events[2].service_id
    /\ rc_call.time >= timestamp(all_events[2])
    /\ NoLaterEventOn(all_events[1].service_id, rc_call.time)
    /\ rc_call.dict[all_events[1].service_id] = SvcC

\* C3: on a log with non-decreasing timestamps the result is the map obtained
\* by applying, in log order, all and only the events with timestamp <=
\* target_time (an event at target_time included), from the empty map.
C3_AllAndOnly ==
    (rc_call.made /\ IsSorted(all_events)) =>
        LET upTo == IndicesUpTo(all_events, rc_call.time, 1)
        IN /\ rc_call.applied = upTo
           /\ rc_call.dict = ApplyAll(all_events, upTo, Len(upTo))

C3_Witness ==
    /\ rc_call.made /\ IsSorted(all_events)
    /\ Len(all_events) = 3
    /\ Len(rc_call.applied) = 2
    /\ timestamp(all_events[2]) = rc_call.time
    /\ DOMAIN rc_call.dict = {1, 2}

\* C4: monotonic replay: on any log, sorted or not, the events applied at t1
\* are a prefix of the events applied at t2 whenever t1 <= t2.
C4_MonotonicReplay ==
    rc_call.made =>
        \A t1 \in Times :
            t1 <= rc_call.time =>
                IsPrefix(AppliedEvents(all_events, t1), rc_call.applied)

C4_Witness ==
    /\ rc_call.made
    /\ ~IsSorted(all_events)
    /\ \E t1 \in Times :
          /\ t1 < rc_call.time
          /\ AppliedEvents(all_events, t1) # <<>>
          /\ Len(AppliedEvents(all_events, t1)) < Len(rc_call.applied)
          /\ \E n \in 1..Len(rc_call.applied) :
                /\ n > Len(AppliedEvents(all_events, t1)) + 1
                /\ timestamp(all_events[rc_call.applied[n]]) <= t1

ReleasedWithin(id, t1, t2) ==
    \E i \in 1..Len(all_events) :
        /\ all_events[i].type = "ReleaseExpired"
        /\ all_events[i].service_id = id
        /\ t1 < timestamp(all_events[i])
        /\ timestamp(all_events[i]) <= t2

NeverForgets ==
    \A t1 \in Times :
        t1 <= rc_call.time =>
            \A id \in DOMAIN reconstruct_state_at_time(all_events, t1) :
                id \in DOMAIN rc_call.dict \/ ReleasedWithin(id, t1, rc_call.time)

\* C5 as stated: on any log and for t1 <= t2, an id in the map at t1 is in the
\* map at t2 unless a ReleaseExpired of that id has its timestamp in (t1, t2].
C5_AnyLog == rc_call.made => NeverForgets

\* C5: on a log with non-decreasing timestamps and for t1 <= t2, an id in the
\* map at t1 is in the map at t2 unless a ReleaseExpired of that id has its
\* timestamp in (t1, t2].
C5_SortedLog == (rc_call.made /\ IsSorted(all_events)) => NeverForgets

C5_Witness ==
    /\ rc_call.made /\ IsSorted(all_events)
    /\ \E t1 \in Times :
          /\ t1 < rc_call.time
          /\ \E id \in DOMAIN reconstruct_state_at_time(all_events, t1) :
                id \notin DOMAIN rc_call.dict /\ ReleasedWithin(id, t1, rc_call.time)
          /\ \E id \in DOMAIN reconstruct_state_at_time(all_events, t1) :
                id \in DOMAIN rc_call.dict

OddCapacities == {3, 5, 7, 79, 81}

\* C8: wavelength symmetry: with capacity W the spread factors of the indices
\* i and W-1-i are exact negatives (so are the angles); for an odd capacity
\* the centre index (W-1)/2 has spread factor 0 and angle 0.
C8_Symmetry ==
    /\ (lane_out.done /\ lane_in[1] < MAX_WAVELENGTHS
        /\ lane_in[2] = MAX_WAVELENGTHS - 1 - lane_in[1]) =>
            /\ lane_out.a.factor.den = lane_out.b.factor.den
            /\ lane_out.a.factor.num = -lane_out.b.factor.num
            /\ lane_out.a.angle.den = lane_out.b.angle.den
            /\ lane_out.a.angle.num = -lane_out.b.angle.num
    /\ lane_out.done =>
         \A W \in OddCapacities :
            LET centre == normalized_wavelength_factor(
                              effective_wavelength((W - 1) \div 2, W), W)
            IN /\ centre.num = 0 /\ centre.den # 0
               /\ wavelength_rotate_angle(centre).num = 0
               /\ \A i \in 0..W - 1 :
                     normalized_wavelength_factor(effective_wavelength(i, W), W).num
                       = -normalized_wavelength_factor(
                              effective_wavelength(W - 1 - i, W), W).num

C8_Witness ==
    /\ lane_out.done
    /\ lane_in = <<3, MAX_WAVELENGTHS - 4>>
    /\ lane_out.a.factor.num < 0
    /\ lane_out.b.factor.num = -lane_out.a.factor.num

LaneWithinBoundary(lane) ==
    /\ lane.factor.den > 0
    /\ Abs(lane.factor.num) <= lane.factor.den
    /\ lane.angle.den > 0
    /\ Abs(lane.angle.num) * 100 <= SpreadPercent * lane.angle.den
    /\ Abs(lane.angle.num) < lane.angle.den

\* C9: no-overlap bound: for any wavelength index, indices >= W included
\* (clamped to W-1), the spread factor lies in [-1, 1] and the angle is at
\* most 0.95 of the link boundary half-angle in magnitude, so strictly inside.
C9_NoOverlap ==
    lane_out.done => (LaneWithinBoundary(lane_out.a) /\ LaneWithinBoundary(lane_out.b))

C9_Witness ==
    /\ lane_out.done
    /\ lane_in[1] > MAX_WAVELENGTHS
    /\ lane_in[2] = 0
    /\ lane_out.a.effective = MAX_WAVELENGTHS - 1
    /\ lane_out.a.factor.num = lane_out.a.factor.den
    /\ lane_out.b.factor.num = -lane_out.b.factor.den

(***************************************************************************)
(* C18.  Early stop on an out-of-order log: on any log the call returns    *)
(* the map obtained by applying exactly the longest prefix of the log in   *)
(* which every timestamp is <= target_time; no event placed after the      *)
(* first event with timestamp > target_time is applied, even when its own  *)
(* timestamp is <= target_time.                                            *)
(***************************************************************************)
\* the length of the longest prefix of events with every timestamp <= t
LongestPrefixUpTo(events, t) ==
    CHOOSE k \in 0..Len(events) :
        /\ \A i \in 1..k : timestamp(events[i]) <= t
        /\ k = Len(events) \/ timestamp(events[k + 1]) > t

C18_EarlyStop ==
    rc_call.made =>
        LET k == LongestPrefixUpTo(all_events, rc_call.time)
            prefix == [i \in 1..k |-> i]
        IN /\ rc_call.applied = prefix
           /\ rc_call.dict = ApplyAll(all_events, prefix, k)
           /\ \A i, j \in 1..Len(all_events) :
                 (i < j /\ timestamp(all_events[i]) > rc_call.time)
                     => j \notin Range(rc_call.applied)

\* an event with timestamp <= target_time sits behind a later-stamped one,
\* and applying it would have changed the map
C18_Witness ==
    /\ rc_call.made
    /\ rc_call.applied # <<>>
    /\ \E i, j \in 1..Len(all_events) :
          /\ i < j
          /\ timestamp(all_events[i]) > rc_call.time
          /\ timestamp(all_events[j]) <= rc_call.time
          /\ all_events[j].type = "Allocation"
          /\ all_events[j].service_id \notin DOMAIN rc_call.dict

(***************************************************************************)
(* C19.  A ReleaseExpired event for an id that is not in the map at that   *)
(* point of the replay leaves the map unchanged; the replay goes on with   *)
(* the following events, and a later Allocation of the id inserts it       *)
(* again.                                                                  *)
(***************************************************************************)
\* the n-th applied event is a ReleaseExpired of an id the map does not hold
ReleaseOfAbsent(n) ==
    LET e == all_events[rc_call.applied[n]]
    IN /\ e.type = "ReleaseExpired"
       /\ e.service_id \notin DOMAIN ApplyAll(all_events, rc_call.applied, n - 1)

\* no applied event after the m-th is on id
LastOn(id, m) ==
    \A n \in (m + 1)..Len(rc_call.applied) :
        all_events[rc_call.applied[n]].service_id # id

C19_ReleaseOfAbsent ==
    rc_call.made =>
        \A n \in 1..Len(rc_call.applied) :
            ReleaseOfAbsent(n) =>
                /\ Replay(NewServiceDict, all_events, rc_call.applied, n)
                       = ApplyAll(all_events, rc_call.applied, n - 1)
                /\ (rc_call.applied[n] < Len(all_events)
                    /\ timestamp(all_events[rc_call.applied[n] + 1]) <= rc_call.time)
                       => n < Len(rc_call.applied)
                /\ \A m \in (n + 1)..Len(rc_call.applied) :
                       LET later == all_events[rc_call.applied[m]]
                       IN (/\ later.type = "Allocation"
                           /\ later.service_id = all_events[rc_call.applied[n]].service_id
                           /\ LastOn(later.service_id, m))
                              => /\ later.service_id \in DOMAIN rc_call.dict
                                 /\ rc_call.dict[later.service_id] = later.details

\* another service is in the map when the absent id is released, and the id
\* is allocated afterwards
C19_Witness ==
    /\ rc_call.made
    /\ Len(rc_call.applied) = 3
    /\ ReleaseOfAbsent(2)
    /\ ApplyAll(all_events, rc_call.applied, 1) # [k \in {} |-> 0]
    /\ all_events[3].type = "Allocation"
    /\ all_events[3].service_id = all_events[2].service_id
    /\ DOMAIN rc_call.dict = {1, 2}

(***************************************************************************)
(* C20.  Applying a Reallocation event changes only the map entry keyed by *)
(* the event's service_id: the entry keyed by the id it was reallocated    *)
(* from, when that id differs, and every other entry are as before, so the *)
(* original service and the derived one can both be in one snapshot.       *)
(***************************************************************************)
C20_ReallocationFrame ==
    rc_call.made =>
        \A n \in 1..Len(rc_call.applied) :
            LET e == all_events[rc_call.applied[n]]
                before == ApplyAll(all_events, rc_call.applied, n - 1)
                after == Replay(NewServiceDict, all_events, rc_call.applied, n)
            IN e.type = "Reallocation" =>
                  /\ DOMAIN after = DOMAIN before \cup {e.service_id}
                  /\ after[e.service_id] = e.details.service
                  /\ \A k \in DOMAIN before \ {e.service_id} : after[k] = before[k]

\* the last applied event reallocates id 2 from id 1, which stays in the map
C20_Witness ==
    /\ rc_call.made
    /\ rc_call.applied # <<>>
    /\ LET e == all_events[rc_call.applied[Len(rc_call.applied)]]
       IN /\ e.type = "Reallocation"
          /\ e.details.defrag_service_id # e.service_id
          /\ e.details.defrag_service_id \in DOMAIN rc_call.dict
          /\ e.service_id \in DOMAIN rc_call.dict
          /\ rc_call.dict[e.service_id] # rc_call.dict[e.details.defrag_service_id]

(***************************************************************************)
(* C11.  Highlight isolation.  A layout pass with highlight list H that    *)
(* follows a pass without highlight on the same topology, log and time is  *)
(* compared with that pass.                                                *)
(***************************************************************************)
\* the step is a layout pass with a highlight that completes, the outputs in
\* place are those of a pass without highlight at the same time
HighlightAfterPlain ==
    /\ topology_needs_update
    /\ highlight_service_id_list.is_some
    /\ last_pass.done
    /\ ~last_pass.highlight.is_some
    /\ last_pass.time = current_time_selection
    /\ ~panicked
    /\ ~topology_needs_update'

\* the centre lines of kind kinds that belong to owner, colours left out
CentreLines(segments, kinds, owner) ==
    {[of |-> segment.of, start |-> segment.start, end |-> segment.end] :
        segment \in {x \in segments : x.of.kind \in kinds /\ x.of.owner = owner}}

Coloured(segments, kinds, owner) ==
    {x \in segments : x.of.kind \in kinds /\ x.of.owner = owner}

ServiceKinds == {"hop", "elbow"}

NotHighlighted == ServiceIds \ Range(highlight_service_id_list.ids)

\* the positions of link boundaries and of services outside H are the same
SamePositions ==
    /\ \A k \in DOMAIN all_connections :
          Coloured(Range(line_vertices'), {"boundary"}, k)
              = Coloured(Range(line_vertices), {"boundary"}, k)
    /\ \A service_id \in NotHighlighted :
          /\ CentreLines(Range(line_vertices'), ServiceKinds, service_id)
                 = CentreLines(Range(line_vertices), ServiceKinds, service_id)
          /\ Coloured(Range(highlight_line_vertices'), ServiceKinds, service_id) = {}

\* a node changes colour only if it is on the path of a service of H
NodesOfHighlighted ==
    \A i \in DOMAIN circle_instances :
        circle_instances'[i].color # circle_instances[i].color =>
            \E service_id \in Range(highlight_service_id_list.ids)
                              \cap DOMAIN last_pass.snapshot :
                \E node_id \in Range(last_pass.snapshot[service_id].path) :
                    Known(node_id) /\ node_id_to_idx[node_id] = i

Dimmed(segment) ==
    [segment EXCEPT !.color = Oklcha(40, 11, segment.color.hue)]

ReferencedInLog(selected) ==
    \E i \in 1..Len(all_events) :
        \/ /\ all_events[i].type = "Allocation"
           /\ all_events[i].service_id = selected
        \/ /\ all_events[i].type = "Reallocation"
           /\ all_events[i].details.defrag_service_id = selected

C12_ResolutionMiss ==
    rs_call.made =>
        /\ ~rs_call.found <=> ~ReferencedInLog(rs_call.selected)
        /\ ~rs_call.found =>
              /\ highlight_service_id_list = rs_call.previous.highlight
              /\ current_time_selection = rs_call.previous.time

\* a miss on a log that holds events of the id, but only a release and a
\* reallocation to it, while a highlight is in place
C12_Witness ==
    /\ rs_call.made
    /\ ~rs_call.found
    /\ highlight_service_id_list = Some(<<1>>)
    /\ current_time_selection = 1
    /\ Len(all_events) = 2
    /\ \A i \in 1..2 : all_events[i].service_id = rs_call.selected

(***************************************************************************)
(* C13.  Resolver query time reaches the creating event: when the          *)
(* selection of X succeeds on a log with an Allocation event for X, and    *)
(* query_time is that Allocation's carried arrival_time plus the epsilon,  *)
(* the Allocation is replayed at query_time and the map at query_time      *)
(* holds X.                                                                *)
(***************************************************************************)
C13_QueryReachesCreation ==
    (rs_call.made /\ rs_call.found /\ AllocationsOf(all_events, rs_call.selected) # {}) =>
        /\ rs_call.captured_from \in Range(AppliedEvents(all_events, rs_call.query_time))
        /\ rs_call.selected
               \in DOMAIN reconstruct_state_at_time(all_events, rs_call.query_time)

(***************************************************************************)
(* C14.  Malformed references are isolated: a link with an unknown end and *)
(* a hop with an unknown node have no geometry, and the geometry of every  *)
(* other link and hop is what the layout emits when the inputs are loaded  *)
(* without the references to unknown ids.                                  *)
(***************************************************************************)
\* the step is the layout pass that follows the reload without unknown ids;
\* the outputs in place are those of the pass over the malformed inputs
PassAfterReload ==
    /\ reload.done
    /\ last_pass.done
    /\ topology_needs_update
    /\ ~panicked
    /\ ~topology_needs_update'

\* a segment without the position of its link or hop in the inputs
Plain(segment, buffer) ==
    [kind |-> segment.of.kind,
     owner |-> IF segment.of.kind = "boundary" THEN 0 ELSE segment.of.owner,
     buffer |-> buffer, start |-> segment.start, end |-> segment.end,
     color |-> segment.color]

Drawn(lines, quads) ==
    {Plain(lines[n], "thin") : n \in DOMAIN lines}
    \cup {Plain(quads[n], "thick") : n \in DOMAIN quads}

\* the unknown ids of the path are all before or all after its known ids
UnknownAtEndsOnly(path) ==
    \A i, j, k \in DOMAIN path :
        (i < j /\ j < k /\ Known(path[i]) /\ Known(path[k])) => Known(path[j])

C14_MalformedIsolated ==
    [][PassAfterReload =>
          /\ \A k \in DOMAIN all_connections :
                ~KnownLink(k) => BoundarySegments(k) = {}
          /\ \A service_id \in DOMAIN last_pass.snapshot :
                LET path == last_pass.snapshot[service_id].path
                IN \A i \in 0..(Len(path) - 2) :
                      ~(Known(path[i + 1]) /\ Known(path[i + 2]))
                          => HopSegments(service_id, i) = {}
          /\ Drawn(line_vertices, highlight_line_vertices)
                 \subseteq Drawn(line_vertices', highlight_line_vertices')
          /\ {x \in Drawn(line_vertices', highlight_line_vertices') :
                  x.kind = "boundary"}
                 \subseteq Drawn(line_vertices, highlight_line_vertices)
          /\ \A service_id \in DOMAIN last_pass.snapshot :
                UnknownAtEndsOnly(last_pass.snapshot[service_id].path) =>
                    {x \in Drawn(line_vertices', highlight_line_vertices') :
                        x.kind # "boundary" /\ x.owner = service_id}
                        \subseteq Drawn(line_vertices, highlight_line_vertices)
          /\ Len(line_vertices) <= Len(line_vertices')
          /\ Len(highlight_line_vertices) <= Len(highlight_line_vertices')]_vars

\* after the second pass: the links and paths are without unknown ids, a
\* service is drawn thin, a service is drawn thick, links are drawn
C14_Witness ==
    /\ reload.done
    /\ ~topology_needs_update
    /\ ~panicked
    /\ Len(all_connections) = 2
    /\ \E k \in DOMAIN all_connections : BoundarySegments(k) # {}
    /\ \E n \in DOMAIN line_vertices : line_vertices[n].of.kind = "hop"
    /\ \E n \in DOMAIN highlight_line_vertices :
          /\ highlight_line_vertices[n].of.kind = "hop"
          /\ Len(last_pass.snapshot[highlight_line_vertices[n].of.owner].path) = 2

(***************************************************************************)
(* C15.  Side consistency: for two nodes at different positions, in every  *)
(* relative orientation, and one wavelength index, the hop segment of the  *)
(* path direction A->B and the hop segment of the path direction B->A have *)
(* the same two endpoints.                                                 *)
(***************************************************************************)
Endpoints(segment) == {segment.start, segment.end}

Reverse(path) == [i \in DOMAIN path |-> path[Len(path) + 1 - i]]

\* the two services of the snapshot, and whether they are in opposite
\* path directions
OppositeDirections ==
    last_pass.snapshot[1].path = Reverse(last_pass.snapshot[2].path)

C15_SideConsistency ==
    (/\ last_pass.done
     /\ DOMAIN last_pass.snapshot = {1, 2}
     /\ OppositeDirections
     /\ last_pass.snapshot[1].wavelength = last_pass.snapshot[2].wavelength) =>
        \A one \in HopSegments(1, 0), other \in HopSegments(2, 0) :
            Endpoints(one) = Endpoints(other)

(***************************************************************************)
(* C16.  Wavelengths never collide: two active services that traverse the  *)
(* same pair of adjacent nodes, in the same or in opposite directions,     *)
(* with different wavelength indices in [0, W) get hop segments with       *)
(* different endpoints.                                                    *)
(***************************************************************************)
C16_NoCollision ==
    (/\ last_pass.done
     /\ DOMAIN last_pass.snapshot = {1, 2}
     /\ last_pass.snapshot[1].wavelength # last_pass.snapshot[2].wavelength
     /\ last_pass.snapshot[1].wavelength < MAX_WAVELENGTHS
     /\ last_pass.snapshot[2].wavelength < MAX_WAVELENGTHS) =>
        \A one \in HopSegments(1, 0), other \in HopSegments(2, 0) :
            Endpoints(one) # Endpoints(other)

(***************************************************************************)
(* C17.  Layout output is produced fresh: after any sequence of layout     *)
(* passes, the normal line vertices, the highlighted quad vertices, the    *)
(* node colours and the text-label hints held by the state are, as         *)
(* collections, what one layout pass on the current topology, event log,   *)
(* time and highlight produces from empty buffers.                         *)
(***************************************************************************)
Count(seq, x) == Cardinality({i \in DOMAIN seq : seq[i] = x})

SameCollection(held, fresh) ==
    /\ Len(held) = Len(fresh)
    /\ \A x \in Range(held) \cup Range(fresh) : Count(held, x) = Count(fresh, x)

\* the output of one pass that starts from empty buffers, for one iteration
\* order of the reconstructed map
FreshPass(order) ==
    LET services ==
            ServicesGeometry(reconstruct_state_at_time(all_events, current_time_selection),
                             order, 1)
    IN [line_vertices |-> LinkBoundaries(1) \o services.lines,
        highlight_line_vertices |-> services.quads,
        circle_instances |-> RecolouredInstances,
        world_text_labels |-> services.labels]

\* a pass has completed on the current query
PassIsCurrent ==
    /\ last_pass.done
    /\ ~panicked
    /\ ~topology_needs_update

C17_ProducedFresh ==
    PassIsCurrent =>
        \E order \in IterationOrders(last_pass.snapshot) :
            /\ SameCollection(line_vertices, FreshPass(order).line_vertices)
            /\ SameCollection(highlight_line_vertices,
                              FreshPass(order).highlight_line_vertices)
            /\ circle_instances = FreshPass(order).circle_instances
            /\ SameCollection(world_text_labels, FreshPass(order).world_text_labels)

(***************************************************************************)
(* C21.  Degenerate skip at interior nodes: when an interior node of an    *)
(* active service's path coincides with its predecessor or its successor,  *)
(* no elbow segment is emitted for that node, thin or thick, and no vertex *)
(* of any segment comes from normalising a zero-length vector.             *)
(***************************************************************************)
ElbowSegments(service_id, i) ==
    {segment \in Segments :
        segment.of = [kind |-> "elbow", owner |-> service_id, index |-> i]}

\* the interior node path[i + 1] (i from 0) lies on its predecessor or on
\* its successor
DegenerateInterior(path, i) ==
    /\ Known(path[i + 1]) /\ Known(path[i + 2]) /\ Known(path[i + 3])
    /\ \/ Centre(path[i + 1]) = Centre(path[i + 2])
       \/ Centre(path[i + 2]) = Centre(path[i + 3])

C21_InteriorDegenerateSkip ==
    last_pass.done =>
        /\ \A service_id \in DOMAIN last_pass.snapshot :
              LET path == last_pass.snapshot[service_id].path
              IN \A i \in 0..(Len(path) - 3) :
                    DegenerateInterior(path, i) => ElbowSegments(service_id, i) = {}
        /\ \A segment \in Segments : ~IsNaN(segment.start) /\ ~IsNaN(segment.end)

(***************************************************************************)
(* C22.  Elbow continuity: for every active service whose path has 3 or    *)
(* more nodes, all known and at pairwise different positions, exactly one  *)
(* elbow segment is emitted per interior node, and its two endpoints are   *)
(* the end of the hop that arrives at the node and the start of the hop    *)
(* that leaves it; a 2-node path emits no elbow.                           *)
(***************************************************************************)
\* how many segments the two buffers hold for the elbow at path[i + 1]
ElbowCount(service_id, i) ==
    Cardinality({n \in DOMAIN line_vertices :
                    line_vertices[n].of =
                        [kind |-> "elbow", owner |-> service_id, index |-> i]})
    + Cardinality({n \in DOMAIN highlight_line_vertices :
                      highlight_line_vertices[n].of =
                          [kind |-> "elbow", owner |-> service_id, index |-> i]})

DistinctKnown(path) ==
    /\ \A i \in DOMAIN path : Known(path[i])
    /\ \A i, j \in DOMAIN path : i # j => Centre(path[i]) # Centre(path[j])

\* the end of hop i and the start of hop i + 1
ArrivingEnd(service_id, i) == (CHOOSE hop \in HopSegments(service_id, i) : TRUE).end

LeavingStart(service_id, i) ==
    (CHOOSE hop \in HopSegments(service_id, i + 1) : TRUE).start

JoinsHops(service_id, i) ==
    \A elbow \in ElbowSegments(service_id, i) :
        Endpoints(elbow) = {ArrivingEnd(service_id, i), LeavingStart(service_id, i)}

LaidOutDistinct(service_id) ==
    /\ Eligible(service_id)
    /\ DistinctKnown(last_pass.snapshot[service_id].path)

C22_ElbowContinuity ==
    (last_pass.done /\ ~panicked) =>
        \A service_id \in DOMAIN last_pass.snapshot :
            LaidOutDistinct(service_id) =>
                LET path == last_pass.snapshot[service_id].path
                IN /\ \A i \in 0..(Len(path) - 3) :
                         /\ ElbowCount(service_id, i) = 1
                         /\ JoinsHops(service_id, i)
                   /\ Len(path) = 2 =>
                         \A segment \in Segments : segment.of.kind # "elbow"

(***************************************************************************)
(* C22, amended.  The same, except that in highlighted mode no elbow is    *)
(* emitted at an interior node where the end of the arriving hop and the   *)
(* start of the leaving hop are the same point (the path doubles back      *)
(* along a line that is not horizontal).                                   *)
(***************************************************************************)
C22_ElbowJoinsHops ==
    (last_pass.done /\ ~panicked) =>
        \A service_id \in DOMAIN last_pass.snapshot :
            LaidOutDistinct(service_id) =>
                LET path == last_pass.snapshot[service_id].path
                IN /\ \A i \in 0..(Len(path) - 3) :
                         /\ ElbowCount(service_id, i) =
                                IF /\ is_highlighted(service_id)
                                   /\ ArrivingEnd(service_id, i)
                                          = LeavingStart(service_id, i)
                                THEN 0 ELSE 1
                         /\ JoinsHops(service_id, i)
                   /\ Len(path) = 2 =>
                         \A segment \in Segments : segment.of.kind # "elbow"

\* a pass that drew an elbow between two hops, thin in one state and thick
\* in another, is reached; so is a thick pass over a path that doubles back
C22_Witness ==
    /\ last_pass.done
    /\ ~panicked
    /\ is_highlighted(1)
    /\ LaidOutDistinct(1)
    /\ Len(last_pass.snapshot[1].path) = 3
    /\ ElbowCount(1, 0) = 1
    /\ ArrivingEnd(1, 0) # LeavingStart(1, 0)

C22_WitnessThin ==
    /\ last_pass.done
    /\ ~panicked
    /\ ~is_highlighted(1)
    /\ LaidOutDistinct(1)
    /\ Len(last_pass.snapshot[1].path) = 3
    /\ ElbowCount(1, 0) = 1

C22_WitnessDoublingBack ==
    /\ last_pass.done
    /\ ~panicked
    /\ is_highlighted(1)
    /\ LaidOutDistinct(1)
    /\ Len(last_pass.snapshot[1].path) = 3
    /\ ArrivingEnd(1, 0) = LeavingStart(1, 0)
    /\ ElbowCount(1, 0) = 0

(***************************************************************************)
(* C23.  Node recolouring: after every layout pass a node has the          *)
(* highlight colour if it is on the path of a service of the snapshot      *)
(* whose id is in the highlight list, and the default colour otherwise;    *)
(* after the highlight is cleared and a pass has run, every node has the   *)
(* default colour.                                                         *)
(***************************************************************************)
ColourOf(node_id) == circle_instances[node_id_to_idx[node_id]].color

\* the node is on the path of a highlighted service of the last snapshot
OnHighlightedPath(node_id) ==
    /\ last_pass.highlight.is_some
    /\ \E service_id \in Range(last_pass.highlight.ids) \cap DOMAIN last_pass.snapshot :
          node_id \in Range(last_pass.snapshot[service_id].path)

C23_NodeRecolouring ==
    last_pass.done =>
        /\ \A node_id \in DOMAIN node_id_to_idx :
              ColourOf(node_id) = IF OnHighlightedPath(node_id)
                                  THEN highlight_node_color
                                  ELSE NodeDefaultColor
        /\ ~last_pass.highlight.is_some =>
              \A i \in DOMAIN circle_instances :
                  circle_instances[i].color = NodeDefaultColor

\* a pass that recoloured some nodes and left another at the default
C23_Witness ==
    /\ last_pass.done
    /\ \E node_id \in DOMAIN node_id_to_idx : ColourOf(node_id) = highlight_node_color
    /\ \E node_id \in DOMAIN node_id_to_idx : ColourOf(node_id) = NodeDefaultColor

\* a pass without highlight after a highlighted pass (whose labels are held)
C23_WitnessCleared ==
    /\ last_pass.done
    /\ ~last_pass.highlight.is_some
    /\ world_text_labels # <<>>
    /\ \A node_id \in DOMAIN node_id_to_idx : ColourOf(node_id) = NodeDefaultColor

(***************************************************************************)
(* C24.  Luminance rule: in a layout pass a service in the highlight list  *)
(* renders at the high luminance; a service not in the list renders at the *)
(* reduced luminance when a highlight is active and at the standard        *)
(* luminance when none is, where no highlight is active both with an       *)
(* absent highlight list and with a highlight list that holds no id.       *)
(***************************************************************************)
HighLuminance == Oklcha(75, 20, 0).lightness

StandardLuminance == Oklcha(60, 11, 0).lightness

ReducedLuminance == Oklcha(40, 11, 0).lightness

HighlightActive ==
    /\ last_pass.highlight.is_some
    /\ last_pass.highlight.ids # <<>>

ServiceSegments ==
    {segment \in Segments : segment.of.kind \in {"hop", "elbow"}}

C24_LuminanceRule ==
    last_pass.done =>
        \A segment \in ServiceSegments :
            segment.color.lightness =
                IF segment.of.owner \in Range(last_pass.highlight.ids)
                THEN HighLuminance
                ELSE IF HighlightActive THEN ReducedLuminance
                ELSE StandardLuminance

(***************************************************************************)
(* C25.  Label hints: after a layout pass with a highlight selection the   *)
(* label list holds exactly one label for each path position of each       *)
(* highlighted active service (content: the node's order in the path from  *)
(* 0, position: the node's centre) and no other label; with no highlighted *)
(* active service it is empty.                                             *)
(***************************************************************************)
\* the path positions (service, k) of the highlighted active services whose
\* node is known and so has a centre
LabelledPositions ==
    {position \in Range(last_pass.highlight.ids) \X (1..3) :
        /\ Eligible(position[1])
        /\ position[2] \in DOMAIN last_pass.snapshot[position[1]].path
        /\ Known(last_pass.snapshot[position[1]].path[position[2]])}

LabelAt(position) ==
    TextLabel(position[2] - 1,
              Centre(last_pass.snapshot[position[1]].path[position[2]]))

C25_LabelHints ==
    (last_pass.done /\ ~panicked /\ last_pass.highlight.is_some) =>
        /\ Len(world_text_labels) = Cardinality(LabelledPositions)
        /\ \A position \in LabelledPositions :
              Count(world_text_labels, LabelAt(position)) =
                  Cardinality({other \in LabelledPositions :
                                  LabelAt(other) = LabelAt(position)})

(***************************************************************************)
(* C26.  Dirty-flag gating: State::update regenerates the line geometry    *)
(* (one layout pass) if and only if topology_needs_update is set on entry; *)
(* on return both flags are false; it returns true if and only if one of   *)
(* the two flags was set on entry; a call with both flags clear leaves the *)
(* line vertices, highlight vertices, node colours and labels unchanged.   *)
(***************************************************************************)
\* the buffers hold the output of a pass on the current query, the labels
\* appended to those held on entry
RegeneratedOnCall ==
    \E order \in IterationOrders(last_pass.snapshot) :
        /\ line_vertices = FreshPass(order).line_vertices
        /\ highlight_line_vertices = FreshPass(order).highlight_line_vertices
        /\ circle_instances = FreshPass(order).circle_instances
        /\ world_text_labels =
               update_call.outputs_on_entry[4] \o FreshPass(order).world_text_labels

C26_WitnessClear ==
    /\ update_call.made
    /\ update_call.returned
    /\ ~update_call.topology_on_entry
    /\ ~update_call.camera_on_entry
    /\ ~update_call.needs_redraw
    /\ last_pass.done
    /\ world_text_labels # <<>>

(***************************************************************************)
(* C27.  Node highlight agrees with drawn highlight: after a layout pass a *)
(* node has the highlight colour only if a highlighted service that is     *)
(* rendered in the pass (in the snapshot, arrival_time <= t <              *)
(* departure_time) has the node on its path; a highlighted id whose        *)
(* service is in the snapshot but outside its activity window recolours no *)
(* node.                                                                   *)
(***************************************************************************)
OnRenderedHighlightedPath(node_id) ==
    \E service_id \in Range(last_pass.highlight.ids) :
        /\ Eligible(service_id)
        /\ node_id \in Range(last_pass.snapshot[service_id].path)

C27_NodeHighlightDrawn ==
    last_pass.done =>
        \A node_id \in DOMAIN node_id_to_idx :
            ColourOf(node_id) = highlight_node_color
                => OnRenderedHighlightedPath(node_id)

(***************************************************************************)
(* C30.  Layout is total over snapshot contents: a layout pass completes   *)
(* for every service carried by the event log whatever the length of its   *)
(* path; a service whose path has fewer than 2 nodes emits no hop and no   *)
(* elbow segment and does not keep the other services from being laid out. *)
(***************************************************************************)
C30_LayoutTotal ==
    last_pass.done =>
        /\ ~panicked
        /\ \A service_id \in DOMAIN last_pass.snapshot :
              LET path == last_pass.snapshot[service_id].path
              IN /\ Len(path) < 2 => ~HasGeometry(service_id)
                 /\ Eligible(service_id) =>
                       \A i \in 0..(Len(path) - 2) :
                           DrawableHop(path, i) => HopSegments(service_id, i) # {}

(***************************************************************************)
(* C28.  Camera zoom bound: after any sequence of camera-changing          *)
(* operations (mouse-wheel zoom_by, fit_view_to_topology, keyboard Q/E     *)
(* zoom, pan, resize) starting from zoom 1.0, the camera zoom stays within *)
(* the clamp range [0.001, 1000].                                          *)
(***************************************************************************)
C28_ZoomBound == ZoomMin <= camera.zoom /\ camera.zoom <= ZoomMax

(***************************************************************************)
(* C29: initialisation handshake ordering.                                 *)
(***************************************************************************)
\* StateInitialized is in flight to the event loop
NotificationInFlight ==
    \E k \in DOMAIN app.events : app.events[k].kind = "StateInitialized"

\* the commands the event loop has not taken yet
CommandsInFlight ==
    {app.events[k].id : k \in {j \in DOMAIN app.events :
                                   app.events[j].kind = "SetFullTopology"}}

\* C29: the StateInitialized notification, and the ready signal it
\* triggers, exist only once the State is stored in the App; every command
\* sent after the ready signal is applied to the State when it is
\* delivered; a command delivered while the State is absent is discarded,
\* and no command is handled twice, so a discarded one is never applied
\* later.
C29_HandshakeOrdering ==
    /\ (NotificationInFlight \/ app.ready) => app.state
    /\ \A h \in app.handled :
          /\ h.sent_after_ready => h.outcome = "applied"
          /\ ~h.state_present => h.outcome = "discarded"
          /\ h.id \notin CommandsInFlight
          /\ \A g \in app.handled : g.id = h.id => g = h

\* C29: a command delivered to process_command leaves the State's buffers
\* holding that command's topology.
C29_AppliedToState ==
    [][\A k \in DOMAIN app.events :
          (/\ app.events[k].kind = "SetFullTopology"
           /\ app.events[k].sent_after_ready
           /\ k = 1
           /\ app.events' = Tail(app.events))
          => /\ Len(circle_instances') = Len(app.events[k].nodes)
             /\ \A i \in DOMAIN circle_instances' :
                   circle_instances'[i].position = app.events[k].nodes[i].position
             /\ line_vertices' = LinkLines(app.events[k].nodes, app.events[k].links, 1)]_vars

\* one command was discarded before the State was stored and a later one,
\* sent after the ready signal, was applied
C29_Witness ==
    /\ app.ready
    /\ \E h \in app.handled : h.sent_after_ready /\ h.outcome = "applied"
    /\ \E h \in app.handled : ~h.state_present /\ h.outcome = "discarded"

====
